---- MODULE Spec2Model ----
(***************************************************************************)
(* go-geodesy: the densification engine (utils/densify.go), the batch      *)
(* form of IntermediatePointTo, point-in-polygon tests (utils/contains.go) *)
(* and the wrapping of angles.                                             *)
(*                                                                         *)
(* The library is call-and-return.  A behaviour of this module is a caller *)
(* invoking one operation (..Op actions), observing its result in `ret`,   *)
(* and returning to idle.  The one piece of state that outlives a call is  *)
(* earthRadius, the package variable behind SetEarthRadius.                *)
(*                                                                         *)
(* The geodesy collaborators geod.IntermediatePoint and geod.Distance are  *)
(* float64 trigonometry.  What densify.go sees of them on one segment, for *)
(* the chosen model and refModel, is abstracted by a Numerics record: the  *)
(* measured error of the segment, how the error of a half relates to the   *)
(* error of the whole, and the longitude of the model midpoint.  Every     *)
(* operation draws the numerics of each of its segments from a bounded     *)
(* set, so a property checked here holds whatever the collaborators        *)
(* return within that set.                                                 *)
(***************************************************************************)
EXTENDS Integers, Sequences, FiniteSets, TLC

VARIABLES pc, call, ret, earthRadius, points, waitGroup, workers, loop

\* the goroutines of one IntermediatePointsTo call: the slice they fill, the
\* WaitGroup counter, the goroutines started, the position of the for loop
batchVars == <<points, waitGroup, workers, loop>>

vars == <<pc, call, ret, earthRadius, points, waitGroup, workers, loop>>

---------------------------------------------------------------------------
(* Bounds of the model *)

\* largest finite error, in metres, that a measurement takes
MaxErr == 2
\* largest tolerance, in metres, that a caller passes (the smallest is -1)
MaxTol == 1
\* longest ring
MaxRingLen == 3
\* most rings of a polygon
MaxRings == 2
\* most polygons of a multipolygon
MaxPolys == 2

---------------------------------------------------------------------------
(* float64 distances: a finite number of metres, or NaN *)

NaN == [nan |-> TRUE, v |-> 0]

Metre(v) == [nan |-> FALSE, v |-> v]

\* Go's a <= b on float64: false as soon as one side is NaN
Leq(a, b) == ~a.nan /\ ~b.nan /\ a.v <= b.v

\* Go's a > b on float64: false as soon as one side is NaN
Gt(a, b) == ~a.nan /\ ~b.nan /\ a.v > b.v

ErrVals == {Metre(v) : v \in 0..MaxErr} \cup {NaN}

Tols == {Metre(t) : t \in (0 - 1)..MaxTol}

---------------------------------------------------------------------------
(* errors *)

Nil == [sentinel |-> "nil", wrapped |-> FALSE]

ErrInvalidTolerance == [sentinel |-> "ErrInvalidTolerance", wrapped |-> FALSE]

ErrToleranceTooLow == [sentinel |-> "ErrToleranceTooLow", wrapped |-> FALSE]

ErrInternalError == [sentinel |-> "ErrInternalError", wrapped |-> FALSE]

ErrInvalidGeometry == [sentinel |-> "ErrInvalidGeometry", wrapped |-> FALSE]

\* fmt.Errorf("%w: ...", err, ...)
Errorf(err) == [err EXCEPT !.wrapped = TRUE]

\* errors.Is(err, target), for a non-nil err
ErrorsIs(err, target) == err.sentinel = target.sentinel

---------------------------------------------------------------------------
(* points and geometries *)

\* orb.Point{lon, lat}, p[1] the longitude and p[2] the latitude: West and
\* North lie on one meridian, West and East on one parallel, on either side
\* of the antimeridian
West == <<170, 0>>

East == <<0 - 170, 0>>

North == <<170, 10>>

Points == {West, East, North}

\* the points rings are made of
RingPoints == {West, East}

\* the segments p0, p1 passed to DensifySegment and to SegmentError: those
\* between the points of rings, and one along a meridian
Segments == (RingPoints \X RingPoints) \cup {<<West, North>>}

\* the sequences over S of length at most n
SeqsUpTo(S, n) == UNION {[1..k -> S] : k \in 0..n}

\* orb.Ring values passed to DensifyRing
Rings == SeqsUpTo(RingPoints, MaxRingLen)

\* the rings polygons are made of: West, East, West, ... of every length,
\* the empty ring and the one-point ring included
PolyRings ==
    {ring \in Rings :
        \A i \in 1..Len(ring) : ring[i] = IF i % 2 = 1 THEN West ELSE East}

\* orb.Polygon values passed to DensifyPolygon
Polygons == SeqsUpTo(PolyRings, MaxRings)

\* orb.MultiPolygon values passed to DensifyMultiPolygon: polygons of at
\* most one ring
MultiPolygons == SeqsUpTo({poly \in Polygons : Len(poly) <= 1}, MaxPolys)

\* the recursion ceiling passed by DensifySegment
MaxRecursion == 15

\* fractions from..to of a segment are counted in units of 1/Scale, so that
\* the midpoint of every interval the recursion can reach is a whole number
Scale == 2 ^ MaxRecursion

\* orb.Point{mp.Longitude, mp.Latitude} for
\* mp = geod.IntermediatePoint(ll0, ll1, at/Scale, model)
ModelPoint(ll0, ll1, at) == <<ll0, ll1, at>>

---------------------------------------------------------------------------
(* numerics of one segment under the chosen model and refModel *)

\* how the error measured on one half of a sub-segment relates to the error
\* measured on the whole: it halves, or it does not decrease
Kinds == {"half", "keep"}

\* the longitudes geod.IntermediatePoint(p0, p1, 0.5, model) can have: that
\* of the two points when they share it, and otherwise, the segment
\* crossing the antimeridian half way, 180 or -180
MidLonsOf(p0, p1) == IF p0[1] = p1[1] THEN {p0[1]} ELSE {0 - 180, 180}

MidLons == UNION {MidLonsOf(s[1], s[2]) : s \in Segments}

\* e     geod.Distance(mp, refMp, model) measured on the whole segment
\* l, r  the error of the left and of the right half of a sub-segment
\* midLon, e180  the longitude of the model midpoint and the distance
\*       measured once a longitude of -180 has been replaced by +180
\* NaN and 0 stay as they are on every half; the largest error behaves in
\* every way; the errors in between halve
Numerics ==
    {n \in [e : ErrVals, l : Kinds, r : Kinds, midLon : MidLons, e180 : ErrVals] :
        /\ (n.e.nan \/ n.e.v = 0) => (n.l = "keep" /\ n.r = "keep")
        /\ (~n.e.nan /\ 0 < n.e.v /\ n.e.v < MaxErr) => (n.l = "half" /\ n.r = "half")
        /\ (n.midLon # 0 - 180) => (n.e180 = n.e)}

\* the numerics the segment p0, p1 can have
NumericsOf(p0, p1) == {n \in Numerics : n.midLon \in MidLonsOf(p0, p1)}

\* the error measured on a half, from the error measured on the whole
Step(kind, e) ==
    IF e.nan THEN e
    ELSE IF kind = "half" THEN Metre(e.v \div 2)
    ELSE e

\* the numerics of the left and of the right half of a sub-segment
Left(num) == [num EXCEPT !.e = Step(num.l, num.e)]

Right(num) == [num EXCEPT !.e = Step(num.r, num.e)]

\* what densification sees of a segment's numerics
Core(num) == [e |-> num.e, l |-> num.l, r |-> num.r]

\* the largest error, which never decreases
Stubborn == [e |-> Metre(MaxErr), l |-> "keep", r |-> "keep"]

\* what densification sees of the edges of rings, polygons and
\* multipolygons: an error within every positive tolerance, or the largest
\* error, which halves on both halves or never decreases on the left half
EdgeCores ==
    {c \in {Core(n) : n \in Numerics} :
        /\ ~c.e.nan
        /\ c.e.v \in {0, MaxErr}
        /\ c.r = "half" \/ c.e.v = 0}

\* the numerics of the edge p0, p1 for a core: the model midpoint of an edge
\* that crosses the antimeridian has the longitude 180
EdgeNumerics(c, p0, p1) ==
    [e |-> c.e, l |-> c.l, r |-> c.r,
     midLon |-> IF p0[1] = p1[1] THEN p0[1] ELSE 180, e180 |-> c.e]

\* the numerics of a set of edges: one of EdgeCores for each edge
Worlds(edges) ==
    {[s \in edges |-> EdgeNumerics(c[s], s[1], s[2])] : c \in [edges -> EdgeCores]}

\* the numerics of the edges of a ring passed to DensifyRing: as above, or
\* the largest error never decreasing on any edge
RingWorlds(edges) ==
    Worlds(edges) \cup {[s \in edges |-> EdgeNumerics(Stubborn, s[1], s[2])]}

---------------------------------------------------------------------------
(* the radius of the spherical earth models *)

\* var earthRadius float64 = 6371000, counted in halves of that value
DefaultRadius == 2

\* the arguments passed to SetEarthRadius: NaN, zero, half the default radius
\* and the default radius
RadiusArgs == {Metre(r) : r \in 0..DefaultRadius} \cup {NaN}

\* SetEarthRadius panics on NaN and on r <= 0
Panics(r) == r.nan \/ r.v <= 0

\* d := R * c of DistanceTo: the distance measured while earthRadius is r,
\* from the distance e measured under the default radius
DistanceTo(e, r) == IF e.nan THEN e ELSE Metre((e.v * r) \div DefaultRadius)

\* what geod.IntermediatePoint and geod.Distance return on a segment while
\* earthRadius is r, num being what they return under the default radius
NumericsAt(num, r) ==
    [num EXCEPT !.e = DistanceTo(num.e, r), !.e180 = DistanceTo(num.e180, r)]

\* the same for each edge of a geometry
WorldAt(world, r) == [s \in DOMAIN world |-> NumericsAt(world[s], r)]

---------------------------------------------------------------------------
(* utils/densify.go *)

Min(a, b) == IF a < b THEN a ELSE b

\* the test e.Metre() <= tolerance.Metre(), with the tolerance one metre
\* wider
Accepted_wider(e, tolerance) == Leq(e, Metre(tolerance.v + 1))

\* e.Metre() <= tolerance.Metre(): the sub-segment is kept as it is
Accepted(e, tolerance) == Leq(e, tolerance)

\* the test recDepth == 0, one level late
AtCeiling_late(recDepth) == recDepth = 0 - 1

\* recDepth == 0: the sub-segment is not bisected any further
AtCeiling(recDepth) == recDepth = 0

\* err = err2 without the test err2 != nil
Accumulate_overwrite(err, err2) == err2

\* if err2 != nil { err = err2 }, for an err2 that is ErrToleranceTooLow
Accumulate(err, err2) == IF err2 # Nil THEN err2 ELSE err

\* ds = append(ds, left...); ds = append(ds, right...): the midpoint twice
Join_all(left, right) == left \o right

\* ds = append(ds, left...); ds = append(ds, right[1:]...)
Join(left, right) == left \o Tail(right)

\* densifySegment: pts and err are the two results (isNil: the list is
\* nil); calls counts the invocations of densifySegment made, floor is the
\* lowest value recDepth took
RECURSIVE densifySegment(_, _, _, _, _, _, _, _, _)
densifySegment(ll0, ll1, pf, pt, from, to, num, tolerance, recDepth0) ==
    LET recDepth == recDepth0 - 1
        mid == (from + to) \div 2
        e == num.e
    IN  IF Accepted(e, tolerance)
        THEN [isNil |-> FALSE, pts |-> <<pf, pt>>, err |-> Nil,
              calls |-> 1, floor |-> recDepth]
        ELSE IF AtCeiling(recDepth)
        THEN [isNil |-> FALSE, pts |-> <<pf, pt>>, err |-> ErrToleranceTooLow,
              calls |-> 1, floor |-> recDepth]
        ELSE LET omp == ModelPoint(ll0, ll1, mid)
                 left == densifySegment(ll0, ll1, pf, omp, from, mid,
                                        Left(num), tolerance, recDepth)
                 right == densifySegment(ll0, ll1, omp, pt, mid, to,
                                         Right(num), tolerance, recDepth)
                 err1 == Accumulate(Nil, left.err)
                 err == Accumulate(err1, right.err)
                 calls == 1 + left.calls + right.calls
                 floor == Min(left.floor, right.floor)
             IN  IF left.err # Nil /\ ~ErrorsIs(left.err, ErrToleranceTooLow)
                 THEN [isNil |-> TRUE, pts |-> <<>>, err |-> left.err,
                       calls |-> 1 + left.calls, floor |-> left.floor]
                 ELSE IF right.err # Nil /\ ~ErrorsIs(right.err, ErrToleranceTooLow)
                 THEN [isNil |-> TRUE, pts |-> <<>>, err |-> right.err,
                       calls |-> calls, floor |-> floor]
                 ELSE [isNil |-> FALSE, pts |-> Join(left.pts, right.pts),
                       err |-> err, calls |-> calls, floor |-> floor]

\* the tolerances that pass DensifySegment's check
PosTols == {t \in Tols : ~Leq(t, Metre(0))}

\* what densification sees of the numerics of a segment, under every radius
Cores == {Core(NumericsAt(n, r)) : n \in Numerics, r \in 1..DefaultRadius}

\* the two sub-segments pf, pt a segment is returned as when it is bisected
\* once
SubSegments ==
    UNION {{<<s[1], ModelPoint(s[1], s[2], Scale \div 2)>>,
            <<ModelPoint(s[1], s[2], Scale \div 2), s[2]>>} : s \in Segments}

\* what densification sees of a sub-segment taken as a segment of its own:
\* an error within a tolerance or one step above, which halves
CoresAgain == {[e |-> Metre(v), l |-> "half", r |-> "half"] : v \in 0..(MaxTol + 1)}

\* the arguments DensifySegment passes on: a segment, what densification
\* sees of its numerics, a tolerance
Passed ==
    {<<s, c, t>> : s \in Segments, c \in Cores, t \in PosTols}
        \cup {<<s, c, t>> : s \in SubSegments, c \in CoresAgain, t \in PosTols}

\* densifySegment(ll0, ll1, p0, p1, 0, 1, model, refModel, tolerance, 15),
\* evaluated once for each argument
densifySegmentFrom15 ==
    [k \in {j : j \in Passed} |->
        densifySegment(k[1][1], k[1][2], k[1][1], k[1][2], 0, Scale, k[2], k[3],
                       MaxRecursion)]

\* densifySegment(ll0, ll1, p0, p1, 0, 1, model, refModel, tolerance, 15),
\* looked up where it was evaluated
densifySegmentAt15(p0, p1, num, tolerance) ==
    densifySegmentFrom15[<<<<p0, p1>>, Core(num), tolerance>>]

\* DensifySegment returning the segment as it is, not nil, beside
\* ErrInvalidTolerance
DensifySegment_unchanged(p0, p1, num, tolerance) ==
    IF Leq(tolerance, Metre(0))
    THEN [isNil |-> FALSE, pts |-> <<p0, p1>>, err |-> ErrInvalidTolerance,
          calls |-> 0, floor |-> MaxRecursion]
    ELSE densifySegmentAt15(p0, p1, num, tolerance)

DensifySegment(p0, p1, num, tolerance) ==
    IF Leq(tolerance, Metre(0))
    THEN [isNil |-> TRUE, pts |-> <<>>, err |-> ErrInvalidTolerance,
          calls |-> 0, floor |-> MaxRecursion]
    ELSE densifySegmentAt15(p0, p1, num, tolerance)

\* geod.Distance(llMid, llRef, model) at the root of a segment; normalised
\* tells whether llMid.Longitude was changed from -180 to 180 before
Distance(num, normalised) == IF normalised THEN num.e180 ELSE num.e

SegmentError(p0, p1, num) ==
    IF p0[1] = p1[1]
    THEN Metre(0)
    ELSE Distance(num, num.midLon = 0 - 180)

\* closed := ... evaluated as false for every ring
Closed_never(ring) == FALSE

\* ring[1] == lastPoint, by longitude and latitude
Closed(ring) ==
    ring[1][1] = ring[Len(ring)][1] /\ ring[1][2] = ring[Len(ring)][2]

\* the segments DensifyRing passes to DensifySegment
EdgesOfRing(ring) ==
    IF Len(ring) < 2 THEN {}
    ELSE {<<ring[i - 1], ring[i]>> : i \in 2..Len(ring)}
         \cup (IF Closed(ring) THEN {} ELSE {<<ring[Len(ring)], ring[1]>>})

EdgesOfPolygon(poly) == UNION {EdgesOfRing(poly[i]) : i \in 1..Len(poly)}

EdgesOfMultiPolygon(mp) == UNION {EdgesOfPolygon(mp[i]) : i \in 1..Len(mp)}

\* AppendEdge with the test len(ps) > 2
AppendEdge_three(acc, ps, err2) ==
    IF err2 # Nil /\ ~ErrorsIs(err2, ErrToleranceTooLow)
    THEN [isNil |-> TRUE, pts |-> <<>>, err |-> err2, segs |-> acc.segs + 1]
    ELSE IF Len(ps) > 2
    THEN [isNil |-> FALSE, pts |-> acc.pts \o Tail(ps),
          err |-> IF err2 # Nil THEN err2 ELSE acc.err, segs |-> acc.segs + 1]
    ELSE [isNil |-> TRUE, pts |-> <<>>, err |-> ErrInternalError,
          segs |-> acc.segs + 1]

\* AppendEdge with dr = append(dr, ps...): the first point of the edge twice
AppendEdge_whole(acc, ps, err2) ==
    IF err2 # Nil /\ ~ErrorsIs(err2, ErrToleranceTooLow)
    THEN [isNil |-> TRUE, pts |-> <<>>, err |-> err2, segs |-> acc.segs + 1]
    ELSE IF Len(ps) > 1
    THEN [isNil |-> FALSE, pts |-> acc.pts \o ps,
          err |-> IF err2 # Nil THEN err2 ELSE acc.err, segs |-> acc.segs + 1]
    ELSE [isNil |-> TRUE, pts |-> <<>>, err |-> ErrInternalError,
          segs |-> acc.segs + 1]

\* AppendEdge with err = err2 outside the test err2 != nil
AppendEdge_overwrite(acc, ps, err2) ==
    IF err2 # Nil /\ ~ErrorsIs(err2, ErrToleranceTooLow)
    THEN [isNil |-> TRUE, pts |-> <<>>, err |-> err2, segs |-> acc.segs + 1]
    ELSE IF Len(ps) > 1
    THEN [isNil |-> FALSE, pts |-> acc.pts \o Tail(ps),
          err |-> err2, segs |-> acc.segs + 1]
    ELSE [isNil |-> TRUE, pts |-> <<>>, err |-> ErrInternalError,
          segs |-> acc.segs + 1]

\* one densified edge appended to dr in DensifyRing: ps, err2 are the
\* results of DensifySegment; acc holds dr, err and the number of
\* DensifySegment calls made so far
AppendEdge(acc, ps, err2) ==
    IF err2 # Nil /\ ~ErrorsIs(err2, ErrToleranceTooLow)
    THEN [isNil |-> TRUE, pts |-> <<>>, err |-> err2, segs |-> acc.segs + 1]
    ELSE IF Len(ps) > 1
    THEN [isNil |-> FALSE, pts |-> acc.pts \o Tail(ps),
          err |-> IF err2 # Nil THEN err2 ELSE acc.err, segs |-> acc.segs + 1]
    ELSE [isNil |-> TRUE, pts |-> <<>>, err |-> ErrInternalError,
          segs |-> acc.segs + 1]

\* the loop of DensifyRing over i, from i to len(ring)-1 (here ring[1] is
\* the first point); stops at the first return
RECURSIVE ringLoop(_, _, _, _, _)
ringLoop(ring, world, tolerance, i, acc) ==
    IF i > Len(ring) \/ acc.isNil THEN acc
    ELSE LET s == DensifySegment(ring[i - 1], ring[i],
                                 world[<<ring[i - 1], ring[i]>>], tolerance)
         IN  ringLoop(ring, world, tolerance, i + 1, AppendEdge(acc, s.pts, s.err))

\* DensifyRing with the test len(ring) < 1
DensifyRing_onePoint(ring, world, tolerance) ==
    IF Len(ring) < 1
    THEN [isNil |-> TRUE, pts |-> <<>>, err |-> Errorf(ErrInvalidGeometry), segs |-> 0]
    ELSE LET lastPoint == ring[Len(ring)]
             closed == Closed(ring)
             dr0 == [isNil |-> FALSE, pts |-> <<ring[1]>>, err |-> Nil, segs |-> 0]
             dr1 == ringLoop(ring, world, tolerance, 2, dr0)
         IN  IF dr1.isNil \/ closed THEN dr1
             ELSE LET s == DensifySegment(lastPoint, ring[1],
                                          world[<<lastPoint, ring[1]>>], tolerance)
                  IN  AppendEdge(dr1, s.pts, s.err)

DensifyRing(ring, world, tolerance) ==
    IF Len(ring) < 2
    THEN [isNil |-> TRUE, pts |-> <<>>, err |-> Errorf(ErrInvalidGeometry), segs |-> 0]
    ELSE LET lastPoint == ring[Len(ring)]
             closed == Closed(ring)
             dr0 == [isNil |-> FALSE, pts |-> <<ring[1]>>, err |-> Nil, segs |-> 0]
             dr1 == ringLoop(ring, world, tolerance, 2, dr0)
         IN  IF dr1.isNil \/ closed THEN dr1
             ELSE LET s == DensifySegment(lastPoint, ring[1],
                                          world[<<lastPoint, ring[1]>>], tolerance)
                  IN  AppendEdge(dr1, s.pts, s.err)

\* the loop of DensifyPolygon over the rings from i on; acc holds dp, err
\* and the number of DensifySegment calls made so far
RECURSIVE polygonLoop(_, _, _, _, _)
polygonLoop(poly, world, tolerance, i, acc) ==
    IF i > Len(poly) \/ (acc.err # Nil /\ ~ErrorsIs(acc.err, ErrToleranceTooLow))
    THEN acc
    ELSE LET dr == DensifyRing(poly[i], world, tolerance)
             segs == acc.segs + dr.segs
         IN  IF dr.err # Nil /\ ~ErrorsIs(dr.err, ErrToleranceTooLow)
             THEN [isNil |-> TRUE, rings |-> <<>>, err |-> dr.err, segs |-> segs]
             ELSE polygonLoop(poly, world, tolerance, i + 1,
                     [isNil |-> FALSE, rings |-> Append(acc.rings, dr.pts),
                      err |-> IF dr.err # Nil THEN dr.err ELSE acc.err,
                      segs |-> segs])

DensifyPolygon(poly, world, tolerance) ==
    polygonLoop(poly, world, tolerance, 1,
                [isNil |-> TRUE, rings |-> <<>>, err |-> Nil, segs |-> 0])

\* the loop of DensifyMultiPolygon over the polygons from i on
RECURSIVE multiPolygonLoop(_, _, _, _, _)
multiPolygonLoop(mp, world, tolerance, i, acc) ==
    IF i > Len(mp) \/ (acc.err # Nil /\ ~ErrorsIs(acc.err, ErrToleranceTooLow))
    THEN acc
    ELSE LET dp == DensifyPolygon(mp[i], world, tolerance)
             segs == acc.segs + dp.segs
         IN  IF dp.err # Nil /\ ~ErrorsIs(dp.err, ErrToleranceTooLow)
             THEN [isNil |-> TRUE, polys |-> <<>>, err |-> dp.err, segs |-> segs]
             ELSE multiPolygonLoop(mp, world, tolerance, i + 1,
                     [isNil |-> FALSE, polys |-> Append(acc.polys, dp.rings),
                      err |-> IF dp.err # Nil THEN dp.err ELSE acc.err,
                      segs |-> segs])

DensifyMultiPolygon(mp, world, tolerance) ==
    multiPolygonLoop(mp, world, tolerance, 1,
                     [isNil |-> TRUE, polys |-> <<>>, err |-> Nil, segs |-> 0])

---------------------------------------------------------------------------
(* densifying a densified ring again *)

\* the error measured on the sub-segment from..to of the segment f..t with
\* numerics num; NaN when from..to is no sub-segment of the bisection
RECURSIVE SubSegmentErr(_, _, _, _, _)
SubSegmentErr(num, f, t, from, to) ==
    IF from = f /\ to = t THEN num.e
    ELSE IF t - f <= 1 THEN NaN
    ELSE LET mid == (f + t) \div 2
         IN  IF to <= mid THEN SubSegmentErr(Left(num), f, mid, from, to)
             ELSE IF from >= mid THEN SubSegmentErr(Right(num), mid, t, from, to)
             ELSE NaN

\* a point inserted by densifySegment, as opposed to a point of the input
Inserted(p) == Len(p) = 3

\* the error measured on the sub-segment between the adjacent output points
\* a and b, the numerics of the edge ll0..ll1 being given by numOf
PairErr(a, b, numOf(_, _)) ==
    LET ll0 == IF Inserted(a) THEN a[1] ELSE IF Inserted(b) THEN b[1] ELSE a
        ll1 == IF Inserted(a) THEN a[2] ELSE IF Inserted(b) THEN b[2] ELSE b
        from == IF Inserted(a) THEN a[3] ELSE 0
        to == IF Inserted(b) THEN b[3] ELSE Scale
    IN  SubSegmentErr(numOf(ll0, ll1), 0, Scale, from, to)

\* the ways the error of a sub-segment comes out when it is measured again
\* with the sub-segment as the whole segment: the model midpoint is then
\* geod.IntermediatePoint(pf, pt, 0.5, model) in place of
\* geod.IntermediatePoint(ll0, ll1, mid, model), the same point up to the
\* rounding of float64; one metre here stands for one rounding step
Roundings == {0 - 1, 0, 1}

Recomputed(e, round) ==
    IF e.nan \/ e.v + round < 0 THEN e ELSE Metre(e.v + round)

\* the numerics of the edges of the densified ring dr: an edge of the input
\* ring that was kept is measured as before; a sub-segment is measured
\* again, and the error of its halves halves
WorldAgain(dr, world, round) ==
    [s \in EdgesOfRing(dr) |->
        IF ~Inserted(s[1]) /\ ~Inserted(s[2])
        THEN Core(world[s])
        ELSE [e |-> Recomputed(PairErr(s[1], s[2], LAMBDA a, b : world[<<a, b>>]),
                               round),
              l |-> "half", r |-> "half"]]

---------------------------------------------------------------------------
(* the caller *)

NoCall == [op |-> "none"]

NoRet == [op |-> "none"]

Init ==
    /\ pc = "idle"
    /\ call = NoCall
    /\ ret = NoRet
    /\ earthRadius = DefaultRadius
    /\ points = <<>>
    /\ waitGroup = 0
    /\ workers = <<>>
    /\ loop = 0

\* SetEarthRadius(r)
SetEarthRadiusOp ==
    /\ pc = "idle"
    /\ \E r \in RadiusArgs :
        /\ call' = [op |-> "SetEarthRadius", r |-> r]
        /\ ret' = [panicked |-> Panics(r)]
        /\ earthRadius' = IF Panics(r) THEN earthRadius ELSE r.v
    /\ pc' = "returned"
    /\ UNCHANGED batchVars

DensifySegmentOp ==
    /\ pc = "idle"
    /\ \E s \in Segments, tolerance \in Tols :
        \E base \in NumericsOf(s[1], s[2]) :
            LET num == NumericsAt(base, earthRadius)
            IN  /\ call' = [op |-> "DensifySegment", p0 |-> s[1], p1 |-> s[2],
                            base |-> base, num |-> num, tolerance |-> tolerance]
                /\ ret' = DensifySegment(s[1], s[2], num, tolerance)
    /\ pc' = "returned"
    /\ UNCHANGED <<earthRadius, batchVars>>

SegmentErrorOp ==
    /\ pc = "idle"
    /\ \E s \in Segments :
        \E base \in NumericsOf(s[1], s[2]) :
            LET num == NumericsAt(base, earthRadius)
            IN  /\ call' = [op |-> "SegmentError", p0 |-> s[1], p1 |-> s[2],
                            base |-> base, num |-> num]
                /\ ret' = [dist |-> SegmentError(s[1], s[2], num)]
    /\ pc' = "returned"
    /\ UNCHANGED <<earthRadius, batchVars>>

DensifyRingOp ==
    /\ pc = "idle"
    /\ \E ring \in Rings, tolerance \in Tols :
        \E base \in RingWorlds(EdgesOfRing(ring)) :
            LET world == WorldAt(base, earthRadius)
            IN  /\ call' = [op |-> "DensifyRing", ring |-> ring, base |-> base,
                            world |-> world, tolerance |-> tolerance]
                /\ ret' = DensifyRing(ring, world, tolerance)
    /\ pc' = "returned"
    /\ UNCHANGED <<earthRadius, batchVars>>

DensifyPolygonOp ==
    /\ pc = "idle"
    /\ \E poly \in Polygons, tolerance \in Tols :
        \E base \in Worlds(EdgesOfPolygon(poly)) :
            LET world == WorldAt(base, earthRadius)
            IN  /\ call' = [op |-> "DensifyPolygon", poly |-> poly, base |-> base,
                            world |-> world, tolerance |-> tolerance]
                /\ ret' = DensifyPolygon(poly, world, tolerance)
    /\ pc' = "returned"
    /\ UNCHANGED <<earthRadius, batchVars>>

DensifyMultiPolygonOp ==
    /\ pc = "idle"
    /\ \E mp \in MultiPolygons, tolerance \in Tols :
        \E base \in Worlds(EdgesOfMultiPolygon(mp)) :
            LET world == WorldAt(base, earthRadius)
            IN  /\ call' = [op |-> "DensifyMultiPolygon", mp |-> mp, base |-> base,
                            world |-> world, tolerance |-> tolerance]
                /\ ret' = DensifyMultiPolygon(mp, world, tolerance)
    /\ pc' = "returned"
    /\ UNCHANGED <<earthRadius, batchVars>>

\* DensifyRing, and on success DensifyRing again on the ring returned, with
\* the same models and tolerance
DensifyRingAgainOp ==
    /\ pc = "idle"
    /\ \E ring \in Rings, tolerance \in Tols, round \in Roundings :
        \E base \in Worlds(EdgesOfRing(ring)) :
            LET world == WorldAt(base, earthRadius)
                first == DensifyRing(ring, world, tolerance)
            IN  /\ first.err = Nil
                /\ call' = [op |-> "DensifyRingAgain", ring |-> ring,
                            base |-> base, world |-> world,
                            tolerance |-> tolerance, round |-> round,
                            first |-> first]
                /\ ret' = DensifyRing(first.pts,
                                      WorldAgain(first.pts, world, round),
                                      tolerance)
    /\ pc' = "returned"
    /\ UNCHANGED <<earthRadius, batchVars>>

\* the caller drops the result
Return ==
    /\ pc = "returned"
    /\ pc' = "idle"
    /\ call' = NoCall
    /\ ret' = NoRet
    /\ points' = <<>>
    /\ waitGroup' = 0
    /\ workers' = <<>>
    /\ loop' = 0
    /\ UNCHANGED earthRadius

Next ==
    \/ SetEarthRadiusOp
    \/ DensifySegmentOp
    \/ SegmentErrorOp
    \/ DensifyRingOp
    \/ DensifyPolygonOp
    \/ DensifyMultiPolygonOp
    \/ DensifyRingAgainOp
    \/ Return

Spec == Init /\ [][Next]_vars

---------------------------------------------------------------------------
(* IntermediatePointTo and IntermediatePointsTo of the four models *)

\* the longest slice of fractions a caller passes
MaxFractions == 3

\* the fractions a caller passes, in quarters: 0.25 and 0.75
Fractions == {1, 3}

\* the models whose IntermediatePointsTo starts one goroutine per fraction
GoModels == {"SphericalModel", "RhumbModel", "VincentyModel"}

\* the start point and the destination: two points apart, and one point twice
Ends == {<<West, East>>, <<West, West>>}

\* a LatLon whose coordinates are those of the point p
LatLonOf(p) == [lon |-> p[1], lat |-> p[2]]

\* LatLon{NaN, NaN}, the point that could not be calculated
NaNPoint == [nan |-> TRUE]

\* LatLon{}, the zero value the slots of make([]LatLon, n) hold
ZeroPoint == [lon |-> 0, lat |-> 0]

\* ll.Equals(other), the coordinates being whole degrees
Equals(ll, other) == ll[1] = other[1] /\ ll[2] = other[2]

\* whether the distance and the initial bearing from ll to dest are NaN.
\* RhumbModel: DistanceTo is 0 for one point twice, InitialBearingTo is NaN;
\* VincentyModel: VincentyInverse returns NaN for both
DistanceIsNaN(model, ll, dest) == model = "VincentyModel" /\ Equals(ll, dest)

InitialBearingIsNaN(model, ll, dest) == Equals(ll, dest)

\* a point that is calculated is written as the calculation that yields it:
\* the method, the model, its operands
Calculated(method, model, ll, dest, fraction) ==
    [method |-> method, model |-> model, ll |-> ll, dest |-> dest,
     fraction |-> fraction]

\* DestinationPoint(dist * fraction, bearing) of RhumbModel and
\* VincentyDirect(dist * fraction, bearing) of VincentyModel, dist and
\* bearing being those from ll to dest: a NaN operand yields the NaN point
DestinationPointOf(model, ll, dest, fraction) ==
    IF DistanceIsNaN(model, ll, dest) \/ InitialBearingIsNaN(model, ll, dest)
    THEN NaNPoint
    ELSE Calculated("DestinationPoint", model, ll, dest, fraction)

\* model(ll).IntermediatePointTo(dest, fraction)
IntermediatePointTo(model, ll, dest, fraction) ==
    IF model = "SphericalModel"
    THEN IF Equals(ll, dest) THEN LatLonOf(ll)
         ELSE Calculated("IntermediatePointTo", model, ll, dest, fraction)
    ELSE IF model = "RhumbModel"
    THEN IF Equals(ll, dest) THEN LatLonOf(ll)
         ELSE DestinationPointOf(model, ll, dest, fraction)
    ELSE IF model = "VincentyModel"
    THEN DestinationPointOf(model, ll, dest, fraction)
    ELSE Calculated("IntermediatePointTo", model, ll, dest, fraction)

\* what one goroutine of model(ll).IntermediatePointsTo(dest, fractions)
\* stores: SphericalModel calls IntermediatePointTo; RhumbModel and
\* VincentyModel use the distance and bearing computed before the loop
WorkerPoint(model, ll, dest, fraction) ==
    IF model = "SphericalModel"
    THEN IntermediatePointTo(model, ll, dest, fraction)
    ELSE DestinationPointOf(model, ll, dest, fraction)

\* waitGroup.Add(delta) doing nothing
Add_nothing(counter, delta) == counter

\* waitGroup.Add(delta); Done() is Add(-1)
Add(counter, delta) == counter + delta

\* points[i] of go func(i int, fraction float64) { ... } (i, fraction): the
\* value i had when the goroutine was started
Slot(worker) == worker.i

\* model(ll).IntermediatePointsTo(dest, fractions) is entered: waitGroup and
\* points are made, the loop is at its first fraction
IntermediatePointsToOp ==
    /\ pc = "idle"
    /\ \E model \in GoModels, ends \in Ends,
          fractions \in SeqsUpTo(Fractions, MaxFractions) :
        /\ call' = [op |-> "IntermediatePointsTo", model |-> model,
                    ll |-> ends[1], dest |-> ends[2], fractions |-> fractions]
        /\ points' = [i \in 1..Len(fractions) |-> ZeroPoint]
    /\ waitGroup' = 0
    /\ workers' = <<>>
    /\ loop' = 1
    /\ pc' = "loop"
    /\ UNCHANGED <<ret, earthRadius>>

\* one iteration of the loop: waitGroup.Add(1); go func(i, fraction)
GoWorker ==
    /\ pc = "loop"
    /\ loop <= Len(call.fractions)
    /\ waitGroup' = Add(waitGroup, 1)
    /\ workers' = Append(workers, [i |-> loop, fraction |-> call.fractions[loop],
                                   at |-> "write", wrote |-> 0])
    /\ loop' = loop + 1
    /\ UNCHANGED <<pc, call, ret, earthRadius, points>>

\* a goroutine stores its point: points[i] = ...
WorkerWrite ==
    /\ pc = "loop"
    /\ \E w \in DOMAIN workers :
        /\ workers[w].at = "write"
        /\ LET slot == Slot(workers[w])
           IN  /\ points' = [points EXCEPT ![slot] =
                                WorkerPoint(call.model, call.ll, call.dest,
                                            workers[w].fraction)]
               /\ workers' = [workers EXCEPT ![w].at = "done", ![w].wrote = slot]
    /\ UNCHANGED <<pc, call, ret, earthRadius, waitGroup, loop>>

\* a goroutine ends: waitGroup.Done()
WorkerDone ==
    /\ pc = "loop"
    /\ \E w \in DOMAIN workers :
        /\ workers[w].at = "done"
        /\ workers' = [workers EXCEPT ![w].at = "exited"]
    /\ waitGroup' = Add(waitGroup, 0 - 1)
    /\ UNCHANGED <<pc, call, ret, earthRadius, points, loop>>

\* the loop is over, waitGroup.Wait() unblocks at counter 0, return points
WaitReturn ==
    /\ pc = "loop"
    /\ loop > Len(call.fractions)
    /\ waitGroup = 0
    /\ ret' = [points |-> points]
    /\ pc' = "returned"
    /\ UNCHANGED <<call, earthRadius, batchVars>>

\* LatLonPlanar.IntermediatePointsTo: a loop in the calling goroutine
PlanarIntermediatePointsToOp ==
    /\ pc = "idle"
    /\ \E ends \in Ends, fractions \in SeqsUpTo(Fractions, MaxFractions) :
        /\ call' = [op |-> "IntermediatePointsTo", model |-> "PlanarModel",
                    ll |-> ends[1], dest |-> ends[2], fractions |-> fractions]
        /\ ret' = [points |->
                      [i \in 1..Len(fractions) |->
                          IntermediatePointTo("PlanarModel", ends[1], ends[2],
                                              fractions[i])]]
    /\ pc' = "returned"
    /\ UNCHANGED <<earthRadius, batchVars>>

NextBatch ==
    \/ IntermediatePointsToOp
    \/ GoWorker
    \/ WorkerWrite
    \/ WorkerDone
    \/ WaitReturn
    \/ PlanarIntermediatePointsToOp
    \/ Return

SpecBatch == Init /\ [][NextBatch]_vars

---------------------------------------------------------------------------
(* utils/contains.go *)

\* the largest longitude and latitude of a point; one step is ten degrees
MaxCoord == 4

\* orb.Point{lon, lat} of whole steps
GridPoints == (0..MaxCoord) \X (0..MaxCoord)

\* the points rings are made of: those of even coordinates, so that the
\* middle of an edge is a point too
Side == 2 * (MaxCoord \div 2)

Corners == {q \in GridPoints : q[1] % 2 = 0 /\ q[2] % 2 = 0}

\* the models whose bearings rayIntersect compares here
BearingModels == {"PlanarModel", "RhumbModel"}

\* ln(tan(lat/2 + pi/4)) of LatLonRhumb.InitialBearingTo in thousandths, at
\* 0, 10, 20, ... 70 degrees
Psi == <<0, 175, 356, 549, 763, 1011, 1317, 1735>>

\* the ordinate a bearing of the model is taken in: the latitude (dy of
\* LatLonPlanar.InitialBearingTo), and the ordinate whose difference is
\* the dpsi of LatLonRhumb.InitialBearingTo
Ordinate(model, lat) == IF model = "RhumbModel" THEN Psi[lat + 1] ELSE 1000 * lat

\* a float64 longitude: a whole number of steps, and the number of times
\* math.Nextafter(_, +Inf) moved it
Lon(v) == [v |-> v, ulp |-> 0]

\* math.Nextafter(x, math.Inf(1))
Nextafter(x) == [x EXCEPT !.ulp = x.ulp + 1]

\* a < b of two such longitudes
LonLess(a, b) == a.v < b.v \/ (a.v = b.v /\ a.ulp < b.ulp)

\* geod.InitialBearing(s, t, model) of a point t east of s, t's longitude
\* being tx: the bearing is atan of the run over the rise (90 - atan(dy/dx)
\* of PlanarModel, atan2(dlambda, dpsi) of RhumbModel), and is kept as the
\* run and the rise
InitialBearing(s, t, tx, model) ==
    [run |-> [tx EXCEPT !.v = tx.v - s[1]],
     rise |-> Ordinate(model, t[2]) - Ordinate(model, s[2])]

\* the sign of bs.rise * bp.run - bp.rise * bs.run, a run being v steps and
\* ulp units in the last place: positive, zero or negative as the bearing bs
\* is less than, equal to or greater than bp (both runs are positive)
Turn(bs, bp) ==
    LET steps == bs.rise * bp.run.v - bp.rise * bs.run.v
        ulps  == bs.rise * bp.run.ulp - bp.rise * bs.run.ulp
    IN  IF steps # 0 THEN steps ELSE ulps

\* the test s[0] > e[0] never made: the edge is taken as it comes
Swapped_never(s, e) == FALSE

\* s[0] > e[0]: s, e = e, s
Swapped(s, e) == s[1] > e[1]

\* rayIntersect(p, s, e, model): (intersects, on)
rayIntersect(p, s0, e0, model) ==
    LET s == IF Swapped(s0, e0) THEN e0 ELSE s0
        e == IF Swapped(s0, e0) THEN s0 ELSE e0
        onVertical ==
            /\ s[1] = e[1]
            /\ \/ s[2] > e[2] /\ s[2] >= p[2] /\ p[2] >= e[2]
               \/ e[2] > s[2] /\ e[2] >= p[2] /\ p[2] >= s[2]
        px == IF p[1] = s[1] \/ p[1] = e[1] THEN Nextafter(Lon(p[1]))
              ELSE Lon(p[1])
        bs == InitialBearing(s, e, Lon(e[1]), model)
        bp == InitialBearing(s, p, px, model)
        on == [intersects |-> FALSE, on |-> TRUE]
        out == [intersects |-> FALSE, on |-> FALSE]
        in == [intersects |-> TRUE, on |-> FALSE]
    IN  IF p[1] = s[1] /\ p[2] = s[2] THEN on
        ELSE IF p[1] = s[1] /\ onVertical THEN on
        ELSE IF p[1] # s[1] /\ p[1] = e[1] /\ p[2] = e[2] THEN on
        ELSE IF LonLess(px, Lon(s[1])) \/ LonLess(Lon(e[1]), px) THEN out
        ELSE IF s[2] > e[2] /\ p[2] > s[2] THEN out
        ELSE IF s[2] > e[2] /\ p[2] < e[2] THEN in
        ELSE IF ~(s[2] > e[2]) /\ p[2] > e[2] THEN out
        ELSE IF ~(s[2] > e[2]) /\ p[2] < s[2] THEN in
        ELSE IF Turn(bs, bp) = 0 THEN on
        ELSE [intersects |-> Turn(bs, bp) > 0, on |-> FALSE]

\* the least and the greatest of a set of numbers
Least(S) == CHOOSE x \in S : \A y \in S : x <= y

Greatest(S) == CHOOSE x \in S : \A y \in S : y <= x

\* r.Bound().Contains(point)
BoundContains(r, point) ==
    /\ Least({r[i][1] : i \in DOMAIN r}) <= point[1]
    /\ point[1] <= Greatest({r[i][1] : i \in DOMAIN r})
    /\ Least({r[i][2] : i \in DOMAIN r}) <= point[2]
    /\ point[2] <= Greatest({r[i][2] : i \in DOMAIN r})

\* the loop of RingContains from edge i on, c being the parity so far
RECURSIVE ringContainsLoop(_, _, _, _, _)
ringContainsLoop(r, point, model, i, c) ==
    IF i > Len(r) - 1 THEN c
    ELSE LET x == rayIntersect(point, r[i], r[i + 1], model)
         IN  IF x.on THEN TRUE
             ELSE ringContainsLoop(r, point, model, i + 1,
                                   IF x.intersects THEN ~c ELSE c)

\* RingContains(r, point, model)
RingContains(r, point, model) ==
    IF ~BoundContains(r, point) THEN FALSE
    ELSE LET x == rayIntersect(point, r[1], r[Len(r)], model)
         IN  IF x.on THEN TRUE
             ELSE ringContainsLoop(r, point, model, 1, x.intersects)

\* PolygonContains(p, point, model)
PolygonContains(p, point, model) ==
    IF ~RingContains(p[1], point, model) THEN FALSE
    ELSE IF \E i \in 2..Len(p) : RingContains(p[i], point, model) THEN FALSE
    ELSE TRUE

\* ring.Reverse()
Reverse(r) == [i \in 1..Len(r) |-> r[Len(r) + 1 - i]]

\* the closed ring r taken from its k-th edge on
Rotated(r, k) == [i \in 1..Len(r) |-> r[((i - 1 + k) % (Len(r) - 1)) + 1]]

\* a ring and the rings of the same edges: from each edge on, either way
\* round
Windings(r) ==
    {Rotated(r, k) : k \in 0..(Len(r) - 2)}
        \cup {Reverse(Rotated(r, k)) : k \in 0..(Len(r) - 2)}

\* the square of corners (lo, lo) and (hi, hi), closed
Square(lo, hi) == <<<<lo, lo>>, <<hi, lo>>, <<hi, hi>>, <<lo, hi>>, <<lo, lo>>>>

\* twice the area of the triangle a, b, c, signed: 0 when c is on the line
\* through a and b
Cross(a, b, c) == (b[1] - a[1]) * (c[2] - a[2]) - (b[2] - a[2]) * (c[1] - a[1])

\* the closed triangles of three corners not on one line
Triangles ==
    {t \in {<<a, b, c, a>> : a \in Corners, b \in Corners, c \in Corners} :
        Cross(t[1], t[2], t[3]) # 0}

\* the rings RingContains is called on
ContainsRings == Triangles \cup Windings(Square(0, Side))

\* the holes of a polygon whose outer ring is the square of side Side: the
\* square and the two triangles of corners one step inside it
HoleRings ==
    Windings(Square(1, Side - 1))
        \cup Windings(<<<<1, 1>>, <<Side - 1, 1>>, <<Side - 1, Side - 1>>, <<1, 1>>>>)
        \cup Windings(<<<<1, 1>>, <<1, Side - 1>>, <<Side - 1, Side - 1>>, <<1, 1>>>>)

\* the polygons PolygonContains is called on: without a hole and with one
ContainsPolygons ==
    {<<outer>> : outer \in {Square(0, Side), Reverse(Square(0, Side))}}
        \cup {<<outer, hole>> : outer \in {Square(0, Side), Reverse(Square(0, Side))},
                                hole \in HoleRings}

RingContainsOp ==
    /\ pc = "idle"
    /\ \E ring \in ContainsRings, point \in GridPoints, model \in BearingModels :
        /\ call' = [op |-> "RingContains", ring |-> ring, point |-> point,
                    model |-> model]
        /\ ret' = [contains |-> RingContains(ring, point, model)]
    /\ pc' = "returned"
    /\ UNCHANGED <<earthRadius, batchVars>>

PolygonContainsOp ==
    /\ pc = "idle"
    /\ \E poly \in ContainsPolygons, point \in GridPoints, model \in BearingModels :
        /\ call' = [op |-> "PolygonContains", poly |-> poly, point |-> point,
                    model |-> model]
        /\ ret' = [contains |-> PolygonContains(poly, point, model)]
    /\ pc' = "returned"
    /\ UNCHANGED <<earthRadius, batchVars>>

NextContains ==
    \/ RingContainsOp
    \/ PolygonContainsOp
    \/ Return

SpecContains == Init /\ [][NextContains]_vars

---------------------------------------------------------------------------
(* Wrap180 and Wrap90 *)

\* the largest number of whole degrees passed, either side of zero
MaxDegrees == 720

\* the Degrees passed: whole degrees
DegreesArgs == (0 - MaxDegrees)..MaxDegrees

\* math.Abs(x)
Abs(x) == IF x < 0 THEN 0 - x ELSE x

\* math.Mod(x, y) of a positive y: the remainder has the sign of x
Mod(x, y) == IF x < 0 THEN 0 - ((0 - x) % y) ELSE x % y

\* math.Floor(math.Abs(degrees / 360.0)) of whole degrees
FloorAbsTurns(degrees) == Abs(degrees) \div 360

\* Wrap360(degrees)
Wrap360(degrees) ==
    IF 0 <= degrees /\ degrees < 360 THEN degrees
    ELSE Mod(Mod(degrees, 360) + 360, 360)

\* Wrap180(degrees)
Wrap180(degrees) ==
    IF 0 - 180 < degrees /\ degrees <= 180 THEN degrees
    ELSE Mod(degrees + 180 + 360 * (FloorAbsTurns(degrees) + 1), 360) - 180

\* Wrap90(degrees)
Wrap90(degrees) ==
    IF 0 - 90 <= degrees /\ degrees <= 90 THEN degrees
    ELSE Abs(Mod(Mod(degrees, 360) + 270, 360) - 180) - 90

Wrap360Op ==
    /\ pc = "idle"
    /\ \E degrees \in DegreesArgs :
        /\ call' = [op |-> "Wrap360", degrees |-> degrees]
        /\ ret' = [degrees |-> Wrap360(degrees)]
    /\ pc' = "returned"
    /\ UNCHANGED <<earthRadius, batchVars>>

Wrap180Op ==
    /\ pc = "idle"
    /\ \E degrees \in DegreesArgs :
        /\ call' = [op |-> "Wrap180", degrees |-> degrees]
        /\ ret' = [degrees |-> Wrap180(degrees)]
    /\ pc' = "returned"
    /\ UNCHANGED <<earthRadius, batchVars>>

Wrap90Op ==
    /\ pc = "idle"
    /\ \E degrees \in DegreesArgs :
        /\ call' = [op |-> "Wrap90", degrees |-> degrees]
        /\ ret' = [degrees |-> Wrap90(degrees)]
    /\ pc' = "returned"
    /\ UNCHANGED <<earthRadius, batchVars>>

NextWrap ==
    \/ Wrap360Op
    \/ Wrap180Op
    \/ Wrap90Op
    \/ Return

SpecWrap == Init /\ [][NextWrap]_vars

---------------------------------------------------------------------------
(* DistanceTo of the four models, VincentyInverse and VincentyDirect *)

\* the largest arc between two points, in the unit the radius and the
\* ellipsoid turn into metres
MaxArc == 2

\* iterations >= 1000 of VincentyInverse
InverseLimit == 1000

\* iterations >= 100 of VincentyDirect
DirectLimit == 100

\* the iteration at which the convergence test of a loop of the given limit
\* first holds: the first, the one before the limit, the limit, one that
\* is never reached, and 0 when the test holds at no iteration
ConvergesAt(limit) == {0, 1, limit - 1, limit, limit + 1}

\* what the float64 formulas yield between two points: the arc between
\* them (c of LatLonSpherical.DistanceTo, the square root of
\* LatLonRhumb.DistanceTo and of LatLonPlanar.DistanceTo, sigma - dsigma of
\* VincentyInverse), none between a point and itself; whether lambda
\* leaves [-pi, pi] in the loop of VincentyInverse; the iteration at which
\* that loop converges, the first for a point and itself
ArcNumerics(ll, dest) ==
    IF Equals(ll, dest) THEN {[arc |-> 0, over |-> FALSE, convergesAt |-> 1]}
    ELSE [arc : 1..MaxArc, over : BOOLEAN, convergesAt : ConvergesAt(InverseLimit)]

\* the value of iterations when the loop of VincentyInverse is left by
\* math.Abs(lambda - lambda') <= 1e-12 || iterations >= 1000
InverseIterations(num) ==
    IF num.convergesAt \in 1..(InverseLimit - 1) THEN num.convergesAt
    ELSE InverseLimit

\* the distance VincentyInverse(dest) returns
VincentyInverse(ll, dest, num) ==
    IF Equals(ll, dest) THEN NaN
    ELSE IF num.over THEN NaN
    ELSE IF InverseIterations(num) >= InverseLimit THEN NaN
    ELSE Metre(num.arc)

\* model(ll).DistanceTo(dest) while earthRadius is r
ModelDistanceTo(model, ll, dest, num, r) ==
    IF model = "VincentyModel" THEN VincentyInverse(ll, dest, num)
    ELSE IF model = "PlanarModel" THEN Metre(num.arc)
    ELSE Metre(num.arc * r)

\* the test iterations >= 100, one iteration late
Exhausted_late(iterations) == iterations > DirectLimit

\* iterations >= 100
Exhausted(iterations) == iterations >= DirectLimit

\* the loop of VincentyDirect: iterations++, then break when
\* math.Abs(sigma - sigma') <= 1e-12 || iterations >= 100
RECURSIVE directLoop(_, _)
directLoop(iterations0, convergesAt) ==
    LET iterations == iterations0 + 1
    IN  IF iterations = convergesAt \/ Exhausted(iterations) THEN iterations
        ELSE directLoop(iterations, convergesAt)

\* VincentyDirect(distance, initialBearing) from ll, convergesAt being the
\* iteration at which its convergence test first holds: the point, and the
\* iterations made
VincentyDirect(ll, distance, bearing, convergesAt) ==
    LET iterations == directLoop(0, convergesAt)
    IN  [point |-> IF Exhausted(iterations) THEN NaNPoint
                   ELSE [method |-> "VincentyDirect", ll |-> ll,
                         distance |-> distance, bearing |-> bearing],
         iterations |-> iterations]

\* the distances and the bearings passed to DestinationPoint
Travels == (0..MaxArc) \X {0, 90}

DistanceToOp ==
    /\ pc = "idle"
    /\ \E model \in GoModels \cup {"PlanarModel"}, ll \in Points, dest \in Points :
        \E num \in ArcNumerics(ll, dest) :
            /\ call' = [op |-> "DistanceTo", model |-> model, ll |-> ll,
                        dest |-> dest, num |-> num]
            /\ ret' = [dist |-> ModelDistanceTo(model, ll, dest, num, earthRadius)]
    /\ pc' = "returned"
    /\ UNCHANGED <<earthRadius, batchVars>>

\* LatLonEllipsoidalVincenty.DestinationPoint(distance, bearing)
DestinationPointOp ==
    /\ pc = "idle"
    /\ \E ll \in Points, travel \in Travels, convergesAt \in ConvergesAt(DirectLimit) :
        /\ call' = [op |-> "DestinationPoint", model |-> "VincentyModel",
                    ll |-> ll, distance |-> travel[1], bearing |-> travel[2],
                    convergesAt |-> convergesAt]
        /\ ret' = VincentyDirect(ll, travel[1], travel[2], convergesAt)
    /\ pc' = "returned"
    /\ UNCHANGED <<earthRadius, batchVars>>

\* the points passed to LatLonPlanar.IntermediatePointTo, of whole degrees:
\* longitudes in (-180, 180] half a turn apart and either side of the
\* antimeridian, latitudes in [-90, 90] with both poles
PlanarPoints == {0 - 140, 0 - 20, 0, 40, 180} \X {0 - 90, 0, 40, 90}

\* the fractions passed, in halves: 0, 0.5 and 1
Halves == 0..2

\* d * Degrees(fraction), the fraction being h halves
TimesFraction(d, h) == (d * h) \div 2

\* LatLonPlanar{lls}.IntermediatePointTo(ll, fraction), points being
\* <<longitude, latitude>> and the fraction h halves
PlanarIntermediatePointTo(lls, ll, h) ==
    LET across == Wrap180(ll[1]) - Wrap180(lls[1])
        dx == IF Abs(across) >= 180
              THEN IF across < 0 THEN across + 360 ELSE across - 360
              ELSE across
        dy == Wrap90(ll[2]) - Wrap90(lls[2])
        latitude == Wrap90(lls[2] + TimesFraction(dy, h))
    IN  IF ll[2] = 90 \/ ll[2] = 0 - 90 THEN <<lls[1], latitude>>
        ELSE IF lls[2] = 90 \/ lls[2] = 0 - 90 THEN <<ll[1], latitude>>
        ELSE <<Wrap180(lls[1] + TimesFraction(dx, h)), latitude>>

PlanarIntermediatePointToOp ==
    /\ pc = "idle"
    /\ \E lls \in PlanarPoints, ll \in PlanarPoints, h \in Halves :
        /\ call' = [op |-> "PlanarIntermediatePointTo", lls |-> lls, ll |-> ll,
                    halves |-> h]
        /\ ret' = [point |-> PlanarIntermediatePointTo(lls, ll, h)]
    /\ pc' = "returned"
    /\ UNCHANGED <<earthRadius, batchVars>>

NextModels ==
    \/ SetEarthRadiusOp
    \/ DistanceToOp
    \/ DestinationPointOp
    \/ PlanarIntermediatePointToOp
    \/ Return

SpecModels == Init /\ [][NextModels]_vars

---------------------------------------------------------------------------
(* earthRadius read while SetEarthRadius runs in another goroutine *)

\* a read that returns the default radius whatever the variable holds
RacyRead_default(held, current) == {DefaultRadius}

\* what a read of earthRadius that is not synchronised with SetEarthRadius
\* can return: any value the variable held since the call began, current
\* being the latest of them
RacyRead(held, current) == held

\* llr.DestinationPoint(dist * fraction, bearing) of a goroutine of
\* LatLonRhumb.IntermediatePointsTo: dist is R * δ with R as DistanceTo read
\* it, δ := distance / earthRadius with earthRadius as the goroutine reads it
RhumbDestinationPoint(ll, dest, fraction, distR, R) ==
    IF InitialBearingIsNaN("RhumbModel", ll, dest)
    THEN NaNPoint
    ELSE [method |-> "DestinationPoint", ll |-> ll, dest |-> dest,
          fraction |-> fraction, dist |-> distR, radius |-> R]

\* LatLonRhumb.IntermediatePointsTo(dest, fractions) is entered: dist :=
\* llr.DistanceTo(dest) reads earthRadius in the calling goroutine, waitGroup
\* and points are made, the loop is at its first fraction
RhumbIntermediatePointsToOp ==
    /\ pc = "idle"
    /\ \E ends \in Ends, fractions \in SeqsUpTo(Fractions, MaxFractions) :
        /\ \E R \in RacyRead({earthRadius}, earthRadius) :
            call' = [op |-> "RhumbIntermediatePointsTo", ll |-> ends[1],
                     dest |-> ends[2], fractions |-> fractions, dist |-> R,
                     held |-> {earthRadius}]
        /\ points' = [i \in 1..Len(fractions) |-> ZeroPoint]
    /\ waitGroup' = 0
    /\ workers' = <<>>
    /\ loop' = 1
    /\ pc' = "loop"
    /\ UNCHANGED <<ret, earthRadius>>

\* a goroutine of LatLonRhumb.IntermediatePointsTo reads earthRadius in
\* DestinationPoint and stores its point
RhumbWorkerWrite ==
    /\ pc = "loop"
    /\ \E w \in DOMAIN workers, R \in RacyRead(call.held, earthRadius) :
        /\ workers[w].at = "write"
        /\ LET slot == Slot(workers[w])
           IN  /\ points' = [points EXCEPT ![slot] =
                                RhumbDestinationPoint(call.ll, call.dest,
                                                      workers[w].fraction,
                                                      call.dist, R)]
               /\ workers' = [workers EXCEPT ![w].at = "done", ![w].wrote = slot]
    /\ UNCHANGED <<pc, call, ret, earthRadius, waitGroup, loop>>

\* SetEarthRadius(r) in another goroutine while a call is running; a call
\* that panics leaves earthRadius as it is
SetEarthRadiusRace ==
    /\ pc \in {"loop", "measure"}
    /\ \E r \in RadiusArgs :
        /\ ~Panics(r)
        /\ earthRadius' = r.v
        /\ call' = [call EXCEPT !.held = @ \cup {r.v}]
    /\ UNCHANGED <<pc, ret, batchVars>>

\* the segments of a running densification: two points apart
RacySegments == {<<West, East>>, <<West, North>>}

\* the numerics of a running densification: a measured error that halves
RacyNumerics(p0, p1) ==
    {n \in NumericsOf(p0, p1) :
        ~n.e.nan /\ n.l = "half" /\ n.r = "half" /\ n.e180 = n.e /\ n.midLon # 0 - 180}

\* DensifySegment(p0, p1, RhumbModel, PlanarModel, tolerance) is entered with
\* a positive tolerance: the calls of densifySegment still to be made are in
\* workers, the next one first, the points returned so far in points
RhumbDensifySegmentOp ==
    /\ pc = "idle"
    /\ \E s \in RacySegments, tolerance \in PosTols :
        \E base \in RacyNumerics(s[1], s[2]) :
            /\ call' = [op |-> "RhumbDensifySegment", p0 |-> s[1], p1 |-> s[2],
                        base |-> base, tolerance |-> tolerance,
                        held |-> {earthRadius}, used |-> {}, err |-> Nil]
            /\ workers' = <<[pf |-> s[1], pt |-> s[2], from |-> 0, to |-> Scale,
                             num |-> base, recDepth |-> MaxRecursion]>>
            /\ points' = <<s[1]>>
    /\ pc' = "measure"
    /\ UNCHANGED <<ret, earthRadius, waitGroup, loop>>

\* one call of densifySegment under RhumbModel: geod.IntermediatePoint reads
\* earthRadius in DistanceTo and in DestinationPoint, geod.Distance reads it
\* in DistanceTo; the sub-segment is returned as it is, or its two halves
\* are densified, the left one first
densifySegmentStep ==
    /\ pc = "measure"
    /\ workers # <<>>
    /\ LET frame == Head(workers)
           recDepth == frame.recDepth - 1
           mid == (frame.from + frame.to) \div 2
           omp == ModelPoint(call.p0, call.p1, mid)
       IN  \E Rdist \in RacyRead(call.held, earthRadius),
              Rdest \in RacyRead(call.held, earthRadius),
              R \in RacyRead(call.held, earthRadius) :
               LET e == DistanceTo(frame.num.e, R)
                   used == call.used \cup {Rdist, Rdest, R}
               IN  IF Accepted(e, call.tolerance)
                   THEN /\ points' = Append(points, frame.pt)
                        /\ workers' = Tail(workers)
                        /\ call' = [call EXCEPT !.used = used]
                   ELSE IF AtCeiling(recDepth)
                   THEN /\ points' = Append(points, frame.pt)
                        /\ workers' = Tail(workers)
                        /\ call' = [call EXCEPT !.used = used,
                                      !.err = Accumulate(@, ErrToleranceTooLow)]
                   ELSE /\ points' = points
                        /\ workers' =
                               <<[pf |-> frame.pf, pt |-> omp, from |-> frame.from,
                                  to |-> mid, num |-> Left(frame.num),
                                  recDepth |-> recDepth],
                                 [pf |-> omp, pt |-> frame.pt, from |-> mid,
                                  to |-> frame.to, num |-> Right(frame.num),
                                  recDepth |-> recDepth]>> \o Tail(workers)
                        /\ call' = [call EXCEPT !.used = used]
    /\ UNCHANGED <<pc, ret, earthRadius, waitGroup, loop>>

\* the outermost densifySegment returns
densifySegmentReturn ==
    /\ pc = "measure"
    /\ workers = <<>>
    /\ ret' = [isNil |-> FALSE, pts |-> points, err |-> call.err]
    /\ pc' = "returned"
    /\ UNCHANGED <<call, earthRadius, batchVars>>

NextRace ==
    \/ SetEarthRadiusOp
    \/ RhumbIntermediatePointsToOp
    \/ GoWorker
    \/ RhumbWorkerWrite
    \/ WorkerDone
    \/ WaitReturn
    \/ RhumbDensifySegmentOp
    \/ densifySegmentStep
    \/ densifySegmentReturn
    \/ SetEarthRadiusRace
    \/ Return

SpecRace == Init /\ [][NextRace]_vars

---------------------------------------------------------------------------
(* the storage of the geometries passed to and returned by densification *)

\* a slice header: the backing array (its index in the heap, 0 for a nil
\* slice), the length and the capacity
Slice(arr, len, cap) == [arr |-> arr, len |-> len, cap |-> cap]

NilSlice == Slice(0, 0, 0)

\* orb.Point{}, the zero value of a cell of a []orb.Point
ZeroOrbPoint == <<0, 0>>

\* s[0], ..., s[len(s)-1]
Contents(heap, s) == [i \in 1..s.len |-> heap[s.arr][i]]

\* a slice made over the first array of the heap, the storage of the input
Make_first(heap, cap, zero) ==
    [heap |-> heap, s |-> Slice(1, 0, Len(heap[1]))]

\* make([]T, 0, cap): a new backing array of cap zero values
Make(heap, cap, zero) ==
    [heap |-> Append(heap, [i \in 1..cap |-> zero]),
     s |-> Slice(Len(heap) + 1, 0, cap)]

\* the capacity append grows to: the double, or what is needed when that is
\* more (the rounding up to a size class is left out)
Grow(cap, needed) == IF needed > 2 * cap THEN needed ELSE 2 * cap

\* append(s, elems...): written into the backing array of s when the
\* capacity allows, into a new and larger array otherwise
AppendSlice(heap, s, elems, zero) ==
    LET needed == s.len + Len(elems)
    IN  IF needed <= s.cap
        THEN [heap |-> [heap EXCEPT ![s.arr] =
                           [i \in 1..s.cap |->
                               IF i > s.len /\ i <= needed
                               THEN elems[i - s.len] ELSE @[i]]],
              s |-> Slice(s.arr, needed, s.cap)]
        ELSE LET cap == Grow(s.cap, needed)
                 old == Contents(heap, s)
             IN  [heap |-> Append(heap,
                              [i \in 1..cap |->
                                  IF i <= s.len THEN old[i]
                                  ELSE IF i <= needed THEN elems[i - s.len]
                                  ELSE zero]),
                  s |-> Slice(Len(heap) + 1, needed, cap)]

\* a value stored in an array of its own, as the caller holds it
Store(heap, cells) ==
    [heap |-> Append(heap, cells),
     s |-> Slice(Len(heap) + 1, Len(cells), Len(cells))]

\* the rings of a polygon stored one after the other; cells are their slices
RECURSIVE StoreRings(_, _, _)
StoreRings(heap, rings, cells) ==
    IF rings = <<>> THEN [heap |-> heap, cells |-> cells]
    ELSE LET st == Store(heap, Head(rings))
         IN  StoreRings(st.heap, Tail(rings), Append(cells, st.s))

\* an orb.Polygon: a slice of rings
StorePolygon(heap, poly) ==
    LET r == StoreRings(heap, poly, <<>>)
    IN  Store(r.heap, r.cells)

RECURSIVE StorePolygons(_, _, _)
StorePolygons(heap, polys, cells) ==
    IF polys = <<>> THEN [heap |-> heap, cells |-> cells]
    ELSE LET st == StorePolygon(heap, Head(polys))
         IN  StorePolygons(st.heap, Tail(polys), Append(cells, st.s))

\* an orb.MultiPolygon: a slice of polygons
StoreMultiPolygon(heap, mp) ==
    LET r == StorePolygons(heap, mp, <<>>)
    IN  Store(r.heap, r.cells)

\* the arrays a ring, a polygon and a multipolygon are stored in
ArraysOfRing(s) == IF s.arr = 0 THEN {} ELSE {s.arr}

ArraysOfPolygon(heap, s) ==
    ArraysOfRing(s)
        \cup UNION {ArraysOfRing(heap[s.arr][i]) : i \in 1..s.len}

ArraysOfMultiPolygon(heap, s) ==
    ArraysOfRing(s)
        \cup UNION {ArraysOfPolygon(heap, heap[s.arr][i]) : i \in 1..s.len}

\* the list v returned by DensifySegment, in the array it was made in: the
\* literal []orb.Point{pf, pt} or ds of make([]orb.Point, 0,
\* len(left)+len(right)-1), a new array in both cases (the arrays of left
\* and right, dropped on return, are not kept in the heap)
StoreSegment(heap, v) ==
    IF v.isNil
    THEN [isNil |-> TRUE, heap |-> heap, s |-> NilSlice, err |-> v.err]
    ELSE LET m == Make(heap, Len(v.pts), ZeroOrbPoint)
             a == AppendSlice(m.heap, m.s, v.pts, ZeroOrbPoint)
         IN  [isNil |-> FALSE, heap |-> a.heap, s |-> a.s, err |-> v.err]

\* DensifySegment: the two points are passed by value
DensifySegmentStored(heap, p0, p1, num, tolerance) ==
    StoreSegment(heap, DensifySegment(p0, p1, num, tolerance))

\* dr = append(dr, ps[1:]...) after ps, err2 := DensifySegment(...); acc
\* holds dr and err
AppendPs(acc, ps) ==
    IF ps.err # Nil /\ ~ErrorsIs(ps.err, ErrToleranceTooLow)
    THEN [isNil |-> TRUE, heap |-> ps.heap, s |-> NilSlice, err |-> ps.err]
    ELSE IF ps.s.len > 1
    THEN LET a == AppendSlice(ps.heap, acc.s, Tail(Contents(ps.heap, ps.s)),
                              ZeroOrbPoint)
         IN  [isNil |-> FALSE, heap |-> a.heap, s |-> a.s,
              err |-> IF ps.err # Nil THEN ps.err ELSE acc.err]
    ELSE [isNil |-> TRUE, heap |-> ps.heap, s |-> NilSlice,
          err |-> ErrInternalError]

\* one edge of DensifyRing
AppendEdgeStored(acc, p0, p1, num, tolerance) ==
    AppendPs(acc, DensifySegmentStored(acc.heap, p0, p1, num, tolerance))

\* the loop of DensifyRing over i
RECURSIVE ringLoopStored(_, _, _, _, _)
ringLoopStored(ring, world, tolerance, i, acc) ==
    IF i > Len(ring) \/ acc.isNil THEN acc
    ELSE ringLoopStored(ring, world, tolerance, i + 1,
                        AppendEdgeStored(acc, ring[i - 1], ring[i],
                                         world[<<ring[i - 1], ring[i]>>],
                                         tolerance))

\* if !closed { ... }: the closing edge of DensifyRing, dr1 being what the
\* loop left
closingEdgeStored(ring, world, tolerance, dr1) ==
    IF dr1.isNil \/ Closed(ring) THEN dr1
    ELSE AppendEdgeStored(dr1, ring[Len(ring)], ring[1],
                          world[<<ring[Len(ring)], ring[1]>>], tolerance)

\* points := make([]orb.Point, 0, len(ring)); dr := orb.Ring(points);
\* dr = append(dr, ring[0])
firstPointStored(heap, ring) ==
    LET points0 == Make(heap, Len(ring), ZeroOrbPoint)
        dr0 == AppendSlice(points0.heap, points0.s, <<ring[1]>>, ZeroOrbPoint)
    IN  [isNil |-> FALSE, heap |-> dr0.heap, s |-> dr0.s, err |-> Nil]

\* DensifyRing on the ring stored at the slice r
DensifyRingStored(heap, r, world, tolerance) ==
    IF r.len < 2
    THEN [isNil |-> TRUE, heap |-> heap, s |-> NilSlice,
          err |-> Errorf(ErrInvalidGeometry)]
    ELSE closingEdgeStored(Contents(heap, r), world, tolerance,
             ringLoopStored(Contents(heap, r), world, tolerance, 2,
                            firstPointStored(heap, Contents(heap, r))))

\* dp = append(dp, dr) after dr, err2 := DensifyRing(...), and
\* dmp = append(dmp, dp) after dp, err2 := DensifyPolygon(...); acc holds
\* dp (dmp) and err
AppendDensified(acc, d) ==
    IF d.err # Nil /\ ~ErrorsIs(d.err, ErrToleranceTooLow)
    THEN [isNil |-> TRUE, heap |-> d.heap, s |-> NilSlice, err |-> d.err]
    ELSE LET a == AppendSlice(d.heap, acc.s, <<d.s>>, NilSlice)
         IN  [isNil |-> FALSE, heap |-> a.heap, s |-> a.s,
              err |-> IF d.err # Nil THEN d.err ELSE acc.err]

\* the loop of DensifyPolygon over the rings
RECURSIVE polygonLoopStored(_, _, _, _, _)
polygonLoopStored(rings, world, tolerance, i, acc) ==
    IF i > Len(rings) \/ acc.isNil THEN acc
    ELSE polygonLoopStored(rings, world, tolerance, i + 1,
             AppendDensified(acc, DensifyRingStored(acc.heap, rings[i], world,
                                                    tolerance)))

\* DensifyPolygon on the polygon stored at the slice p; var dp orb.Polygon
\* is nil
DensifyPolygonStored(heap, p, world, tolerance) ==
    polygonLoopStored(Contents(heap, p), world, tolerance, 1,
                      [isNil |-> FALSE, heap |-> heap, s |-> NilSlice,
                       err |-> Nil])

\* the loop of DensifyMultiPolygon over the polygons
RECURSIVE multiPolygonLoopStored(_, _, _, _, _)
multiPolygonLoopStored(polys, world, tolerance, i, acc) ==
    IF i > Len(polys) \/ acc.isNil THEN acc
    ELSE multiPolygonLoopStored(polys, world, tolerance, i + 1,
             AppendDensified(acc, DensifyPolygonStored(acc.heap, polys[i], world,
                                                       tolerance)))

DensifyMultiPolygonStored(heap, m, world, tolerance) ==
    multiPolygonLoopStored(Contents(heap, m), world, tolerance, 1,
                           [isNil |-> FALSE, heap |-> heap, s |-> NilSlice,
                            err |-> Nil])

\* the numerics of the segments whose storage is followed: an error that
\* halves on the right half at least, so that the lists stay short
StoredNumerics(p0, p1) ==
    {n \in NumericsOf(p0, p1) : ~n.e.nan /\ (n.r = "half" \/ n.e.v = 0)}

\* the arrays the geometry at the slice s is stored in
ArraysOf(op, heap, s) ==
    IF op = "DensifyMultiPolygonStored" THEN ArraysOfMultiPolygon(heap, s)
    ELSE IF op = "DensifyPolygonStored" THEN ArraysOfPolygon(heap, s)
    ELSE ArraysOfRing(s)

\* a call returns: in is the input as the caller stored it before the call
\* (heap and slice), out what the call returns and the heap it leaves
ReturnStored(op, in, tolerance, out) ==
    /\ call' = [op |-> op, heap |-> in.heap, input |-> in.s,
                arrays |-> ArraysOf(op, in.heap, in.s), tolerance |-> tolerance]
    /\ points' = out.heap
    /\ ret' = [isNil |-> out.isNil, s |-> out.s, err |-> out.err,
               arrays |-> ArraysOf(op, out.heap, out.s)]

\* DensifySegment(p0, p1, ...) on two points the caller holds in an array
DensifySegmentStoredOp ==
    /\ pc = "idle"
    /\ \E s \in Segments, tolerance \in Tols :
        \E base \in StoredNumerics(s[1], s[2]) :
            ReturnStored("DensifySegmentStored", Store(<<>>, <<s[1], s[2]>>),
                         tolerance,
                         DensifySegmentStored(<<<<s[1], s[2]>>>>, s[1], s[2],
                                              NumericsAt(base, earthRadius),
                                              tolerance))
    /\ pc' = "returned"
    /\ UNCHANGED <<earthRadius, waitGroup, workers, loop>>

DensifyRingStoredOp ==
    /\ pc = "idle"
    /\ \E ring \in Rings, tolerance \in Tols :
        \E base \in Worlds(EdgesOfRing(ring)) :
            ReturnStored("DensifyRingStored", Store(<<>>, ring), tolerance,
                         DensifyRingStored(Store(<<>>, ring).heap,
                                           Store(<<>>, ring).s,
                                           WorldAt(base, earthRadius), tolerance))
    /\ pc' = "returned"
    /\ UNCHANGED <<earthRadius, waitGroup, workers, loop>>

DensifyPolygonStoredOp ==
    /\ pc = "idle"
    /\ \E poly \in Polygons, tolerance \in Tols :
        \E base \in Worlds(EdgesOfPolygon(poly)) :
            ReturnStored("DensifyPolygonStored", StorePolygon(<<>>, poly),
                         tolerance,
                         DensifyPolygonStored(StorePolygon(<<>>, poly).heap,
                                              StorePolygon(<<>>, poly).s,
                                              WorldAt(base, earthRadius),
                                              tolerance))
    /\ pc' = "returned"
    /\ UNCHANGED <<earthRadius, waitGroup, workers, loop>>

DensifyMultiPolygonStoredOp ==
    /\ pc = "idle"
    /\ \E mp \in MultiPolygons, tolerance \in Tols :
        \E base \in Worlds(EdgesOfMultiPolygon(mp)) :
            ReturnStored("DensifyMultiPolygonStored", StoreMultiPolygon(<<>>, mp),
                         tolerance,
                         DensifyMultiPolygonStored(StoreMultiPolygon(<<>>, mp).heap,
                                                   StoreMultiPolygon(<<>>, mp).s,
                                                   WorldAt(base, earthRadius),
                                                   tolerance))
    /\ pc' = "returned"
    /\ UNCHANGED <<earthRadius, waitGroup, workers, loop>>

NextStorage ==
    \/ SetEarthRadiusOp
    \/ DensifySegmentStoredOp
    \/ DensifyRingStoredOp
    \/ DensifyPolygonStoredOp
    \/ DensifyMultiPolygonStoredOp
    \/ Return

SpecStorage == Init /\ [][NextStorage]_vars

---------------------------------------------------------------------------
(* what the properties below speak of *)

\* an operation has returned and the caller holds its result
Returned(op) == pc = "returned" /\ call.op = op

Positive(tolerance) == ~Leq(tolerance, Metre(0))

\* a hard error: an error other than ErrToleranceTooLow
Hard(err) == err # Nil /\ ~ErrorsIs(err, ErrToleranceTooLow)

\* the level of the sub-segments at the recursion ceiling, the whole
\* segment being level 0
CeilingLevel == MaxRecursion - 1

\* the numerics of the sub-segments of bisection level `level` that
\* densifySegment measures: a sub-segment is bisected when its error is not
\* within the tolerance
RECURSIVE Measured(_, _, _)
Measured(num, tolerance, level) ==
    IF level = 0 THEN {Core(num)}
    ELSE UNION {{Left(n), Right(n)} :
                   n \in {m \in Measured(num, tolerance, level - 1) :
                             ~Leq(m.e, tolerance)}}

\* the number of edges DensifyRing densifies, for a ring of two points or
\* more
EdgeCount(ring) == Len(ring) - 1 + (IF Closed(ring) THEN 0 ELSE 1)

\* the rings of a polygon or multipolygon in the order they are densified
RECURSIVE Flatten(_)
Flatten(mp) == IF mp = <<>> THEN <<>> ELSE Head(mp) \o Flatten(Tail(mp))

\* the rings, in order, of the geometry the caller passed
RingsOfCall ==
    IF call.op = "DensifyRing" THEN <<call.ring>>
    ELSE IF call.op = "DensifyPolygon" THEN call.poly
    ELSE Flatten(call.mp)

\* the edges of the geometry the caller passed
EdgesOfCall ==
    UNION {EdgesOfRing(RingsOfCall[i]) : i \in 1..Len(RingsOfCall)}

GeometryOps == {"DensifyRing", "DensifyPolygon", "DensifyMultiPolygon"}

\* a geometry operation has returned
GeometryReturned == pc = "returned" /\ call.op \in GeometryOps

\* the index of the first ring of fewer than two points, 0 if there is none
FirstShort(rings) ==
    IF \A i \in 1..Len(rings) : Len(rings[i]) >= 2 THEN 0
    ELSE CHOOSE i \in 1..Len(rings) :
            /\ Len(rings[i]) < 2
            /\ \A j \in 1..(i - 1) : Len(rings[j]) >= 2

---------------------------------------------------------------------------
(* properties *)

\* C1: DensifySegment called with a tolerance of zero or below returns a nil
\* point list and ErrInvalidTolerance, whatever the two points and the
\* numerics of the models, and densifySegment is never entered.
C1_InvalidTolerance ==
    (Returned("DensifySegment") /\ ~Positive(call.tolerance)) =>
        /\ ret.isNil
        /\ ret.pts = <<>>
        /\ ret.err = ErrInvalidTolerance
        /\ ret.calls = 0

\* C1 happens: a tolerance of exactly zero on a segment with an error
C1_Witness ==
    /\ Returned("DensifySegment")
    /\ call.tolerance = Metre(0)
    /\ call.num.e = Metre(MaxErr)
    /\ call.p0 # call.p1
    /\ ret.err = ErrInvalidTolerance

\* C2: DensifyRing, DensifyPolygon and DensifyMultiPolygon called with a
\* tolerance of zero or below return a hard error (an error that is not
\* ErrToleranceTooLow) and no result geometry, for every input geometry,
\* the geometries without polygons, rings or points included.
C2_HardErrorOnInvalidTolerance ==
    (GeometryReturned /\ ~Positive(call.tolerance)) =>
        /\ ret.isNil
        /\ Hard(ret.err)

C4_KeepsProcessing ==
    (GeometryReturned /\ Positive(call.tolerance) /\ FirstShort(RingsOfCall) = 0) =>
        /\ ret.err \in {Nil, ErrToleranceTooLow}
        /\ (ret.err = ErrToleranceTooLow) <=>
               \E s \in EdgesOfCall :
                   DensifySegment(s[1], s[2], call.world[s], call.tolerance).err
                       = ErrToleranceTooLow
        /\ call.op = "DensifyRing" =>
               /\ ~ret.isNil
               /\ SelectSeq(ret.pts, LAMBDA p : ~Inserted(p))
                      = IF Closed(call.ring) THEN call.ring
                        ELSE Append(call.ring, call.ring[1])
        /\ call.op = "DensifyPolygon" =>
               /\ Len(ret.rings) = Len(call.poly)
               /\ \A i \in 1..Len(call.poly) :
                      ret.rings[i]
                          = DensifyRing(call.poly[i], call.world, call.tolerance).pts
        /\ call.op = "DensifyMultiPolygon" =>
               /\ Len(ret.polys) = Len(call.mp)
               /\ \A i \in 1..Len(call.mp) :
                      ret.polys[i]
                          = DensifyPolygon(call.mp[i], call.world, call.tolerance).rings

\* C4 happens: a polygon of two rings whose edge West-East comes back with
\* ErrToleranceTooLow and whose edge East-West, densified after it, with nil
C4_Witness ==
    /\ Returned("DensifyPolygon")
    /\ Positive(call.tolerance)
    /\ Len(call.poly) = 2
    /\ FirstShort(call.poly) = 0
    /\ DensifySegment(West, East, call.world[<<West, East>>], call.tolerance).err
           = ErrToleranceTooLow
    /\ DensifySegment(East, West, call.world[<<East, West>>], call.tolerance).err
           = Nil
    /\ ret.err = ErrToleranceTooLow
    /\ Len(ret.rings) = 2

\* C5, as amended: DensifyRing on a ring of fewer than two points returns nil
\* and ErrInvalidGeometry without densifying any segment.  DensifyPolygon and
\* DensifyMultiPolygon on a geometry with such a ring return a nil geometry,
\* the rings densified before it discarded, and a hard error in place of any
\* ErrToleranceTooLow met before: ErrInvalidGeometry, unless the tolerance is
\* zero or below and a ring of two points or more comes before the first
\* short ring, and ErrInvalidTolerance then.
C5_ShortRing ==
    (GeometryReturned /\ FirstShort(RingsOfCall) # 0) =>
        /\ ret.isNil
        /\ call.op = "DensifyRing" => (ret.pts = <<>> /\ ret.segs = 0)
        /\ call.op = "DensifyPolygon" => ret.rings = <<>>
        /\ call.op = "DensifyMultiPolygon" => ret.polys = <<>>
        /\ IF ~Positive(call.tolerance) /\ FirstShort(RingsOfCall) > 1
           THEN ret.err = ErrInvalidTolerance
           ELSE ErrorsIs(ret.err, ErrInvalidGeometry)

\* C5 happens: the first ring of a polygon comes back with
\* ErrToleranceTooLow, the second has fewer than two points
C5_Witness ==
    /\ Returned("DensifyPolygon")
    /\ Positive(call.tolerance)
    /\ FirstShort(call.poly) = 2
    /\ DensifyRing(call.poly[1], call.world, call.tolerance).err = ErrToleranceTooLow
    /\ ret.isNil
    /\ ErrorsIs(ret.err, ErrInvalidGeometry)
    /\ ret.segs > 0

\* C5 as stated: a geometry with a ring of fewer than two points returns nil
\* and ErrInvalidGeometry.
C5_ShortRingAlwaysInvalidGeometry ==
    (GeometryReturned /\ FirstShort(RingsOfCall) # 0) =>
        /\ ret.isNil
        /\ ErrorsIs(ret.err, ErrInvalidGeometry)

\* C6: for every positive tolerance DensifySegment returns at most 2^14 + 1
\* points: one more than the sub-segments it keeps (of the calls of
\* densifySegment, one more than half keep their sub-segment), none of them
\* more than 14 bisections below the segment.  DensifyRing on a ring of k
\* edges returns at most k * 2^14 + 1 points.
C6_PointBudget ==
    /\ (Returned("DensifySegment") /\ Positive(call.tolerance)) =>
           /\ Len(ret.pts) = (ret.calls + 1) \div 2 + 1
           /\ Len(ret.pts) <= 2 ^ 14 + 1
           /\ (MaxRecursion - 1) - ret.floor <= 14
    /\ (Returned("DensifyRing") /\ Positive(call.tolerance) /\ Len(call.ring) >= 2) =>
           Len(ret.pts) <= EdgeCount(call.ring) * 2 ^ 14 + 1

\* C6 happens: a ring of two edges comes back with 2 * 2^14 + 1 points
C6_Witness ==
    /\ Returned("DensifyRing")
    /\ Positive(call.tolerance)
    /\ Len(call.ring) >= 2
    /\ EdgeCount(call.ring) = 2
    /\ call.ring[1] # call.ring[2]
    /\ Len(ret.pts) = 2 * 2 ^ 14 + 1

\* C7: every call of DensifySegment terminates whatever the measured errors
\* are (always above the tolerance, NaN, never decreasing): the depth
\* counter goes down on every recursive call and the recursion stops when
\* it is 0, so the counter never goes below 0 and at most 2^15 - 1 calls of
\* densifySegment are made.
C7_Terminates ==
    (Returned("DensifySegment") /\ Positive(call.tolerance)) =>
        /\ ret.floor >= 0
        /\ ret.calls >= 1
        /\ ret.calls <= 2 ^ 15 - 1

\* C7 happens: every measured error is NaN, and the recursion stops after
\* 2^15 - 1 calls with the depth counter at 0
C7_Witness ==
    /\ Returned("DensifySegment")
    /\ Positive(call.tolerance)
    /\ call.num.e.nan
    /\ ret.floor = 0
    /\ ret.calls = 2 ^ 15 - 1

\* C8: if DensifySegment or DensifyRing returns a nil error, every adjacent
\* pair of points of the output is a sub-segment of the bisection whose
\* measured error was within the tolerance.
C8_AcceptedWithinTolerance ==
    /\ (Returned("DensifySegment") /\ ret.err = Nil) =>
           \A i \in 1..(Len(ret.pts) - 1) :
               Leq(PairErr(ret.pts[i], ret.pts[i + 1], LAMBDA a, b : call.num),
                   call.tolerance)
    /\ (Returned("DensifyRing") /\ ret.err = Nil) =>
           \A i \in 1..(Len(ret.pts) - 1) :
               Leq(PairErr(ret.pts[i], ret.pts[i + 1],
                           LAMBDA a, b : call.world[<<a, b>>]),
                   call.tolerance)

\* C8 happens: a ring comes back with a nil error and with inserted points
C8_Witness ==
    /\ Returned("DensifyRing")
    /\ ret.err = Nil
    /\ \E i \in 1..Len(ret.pts) : Inserted(ret.pts[i])

\* C9: SegmentError pre-assesses a segment: DensifySegment with a positive
\* tolerance at or above SegmentError(p0, p1) returns exactly p0, p1 and a
\* nil error, and DensifyRing on a closed ring with a positive tolerance at
\* or above the SegmentError of every edge returns the ring unchanged.
C9_SegmentErrorPreassesses ==
    /\ ( /\ Returned("DensifySegment")
         /\ Positive(call.tolerance)
         /\ Leq(SegmentError(call.p0, call.p1, call.num), call.tolerance) ) =>
           (ret.pts = <<call.p0, call.p1>> /\ ret.err = Nil)
    /\ ( /\ Returned("DensifyRing")
         /\ Positive(call.tolerance)
         /\ Len(call.ring) >= 2
         /\ Closed(call.ring)
         /\ \A s \in EdgesOfRing(call.ring) :
                Leq(SegmentError(s[1], s[2], call.world[s]), call.tolerance) ) =>
           (ret.pts = call.ring /\ ret.err = Nil)

\* C10: DensifySegment on a segment along a meridian (p0 and p1 of equal
\* longitude) returns exactly the two points, whatever the positive
\* tolerance and the models.
C10_MeridianUnchanged ==
    ( /\ Returned("DensifySegment")
      /\ Positive(call.tolerance)
      /\ call.p0[1] = call.p1[1] ) =>
        (ret.pts = <<call.p0, call.p1>> /\ ret.err = Nil)

\* C11: densification is idempotent: when DensifyRing has returned a ring and
\* no error for a positive tolerance, DensifyRing on the ring returned, with
\* the same models and tolerance, returns the identical ring and no error.
C11_Idempotent ==
    (Returned("DensifyRingAgain") /\ Positive(call.tolerance)) =>
        (ret.err = Nil /\ ret.pts = call.first.pts)

\* an edge whose error exceeds the tolerance and whose two halves are each
\* within it
BisectedOnce(num, tolerance) ==
    /\ Gt(num.e, tolerance)
    /\ Leq(Left(num).e, tolerance)
    /\ Leq(Right(num).e, tolerance)

\* the positions i of the ring whose edge ring[i-1]..ring[i] is of that kind
BisectedOnceIn(ring, world, tolerance) ==
    {i \in 2..Len(ring) :
        BisectedOnce(world[<<ring[i - 1], ring[i]>>], tolerance)}

\* C12: an edge whose error exceeds the tolerance and whose two halves are
\* each within it comes back from DensifySegment as the three points p0,
\* model midpoint, p1 with a nil error; a closed ring of n points of which k
\* edges are of that kind, the others being within the tolerance, comes back
\* from DensifyRing with n + k points and a nil error.
C12_OneBisection ==
    /\ ( /\ Returned("DensifySegment")
         /\ Positive(call.tolerance)
         /\ BisectedOnce(call.num, call.tolerance) ) =>
           /\ ret.pts = <<call.p0, ModelPoint(call.p0, call.p1, Scale \div 2), call.p1>>
           /\ ret.err = Nil
    /\ ( /\ Returned("DensifyRing")
         /\ Positive(call.tolerance)
         /\ Len(call.ring) >= 2
         /\ Closed(call.ring)
         /\ \A i \in 2..Len(call.ring) :
                LET num == call.world[<<call.ring[i - 1], call.ring[i]>>]
                IN  Leq(num.e, call.tolerance) \/ BisectedOnce(num, call.tolerance) ) =>
           /\ ret.err = Nil
           /\ Len(ret.pts) = Len(call.ring)
                  + Cardinality(BisectedOnceIn(call.ring, call.world, call.tolerance))

\* C12 happens: a closed ring of three points, both edges bisected once,
\* comes back with five points
C12_Witness ==
    /\ Returned("DensifyRing")
    /\ Positive(call.tolerance)
    /\ Len(call.ring) = 3
    /\ Closed(call.ring)
    /\ call.ring[1] # call.ring[2]
    /\ Cardinality(BisectedOnceIn(call.ring, call.world, call.tolerance)) = 2
    /\ ret.err = Nil
    /\ Len(ret.pts) = 5
    /\ Inserted(ret.pts[2])
    /\ Inserted(ret.pts[4])

\* a call of IntermediatePointsTo of one of the models with goroutines has
\* returned
BatchReturned ==
    pc = "returned" /\ call.op = "IntermediatePointsTo" /\ call.model \in GoModels

\* C13: whatever the interleaving of the goroutines, IntermediatePointsTo of
\* SphericalModel, RhumbModel and VincentyModel returns only when every
\* goroutine has stored its point and ended; the slice returned has
\* len(fractions) entries, entry i being the point computed for fractions[i];
\* no two goroutines ever store into the same slot.
C13_BatchBarrier ==
    /\ \A v, w \in DOMAIN workers :
           (v # w /\ workers[v].wrote # 0) => workers[v].wrote # workers[w].wrote
    /\ BatchReturned =>
           /\ Len(workers) = Len(call.fractions)
           /\ \A w \in DOMAIN workers : workers[w].at = "exited"
           /\ Len(ret.points) = Len(call.fractions)
           /\ \A i \in 1..Len(call.fractions) :
                  ret.points[i]
                      = WorkerPoint(call.model, call.ll, call.dest, call.fractions[i])

\* C13 happens: a call with MaxFractions fractions, not all the same, between
\* two points apart has returned
C13_Witness ==
    /\ BatchReturned
    /\ Len(call.fractions) = MaxFractions
    /\ call.fractions[1] # call.fractions[MaxFractions]
    /\ ~Equals(call.ll, call.dest)
    /\ \A i \in 1..MaxFractions : ret.points[i] # ZeroPoint
    /\ ret.points[1] # ret.points[MaxFractions]

\* C14: for every model, start point, destination (the same point or not)
\* and list of fractions, entry i of IntermediatePointsTo(dest, fractions) is
\* IntermediatePointTo(dest, fractions[i]).
C14_BatchIsSequential ==
    (pc = "returned" /\ call.op = "IntermediatePointsTo") =>
        /\ Len(ret.points) = Len(call.fractions)
        /\ \A i \in 1..Len(call.fractions) :
               ret.points[i]
                   = IntermediatePointTo(call.model, call.ll, call.dest,
                                         call.fractions[i])

\* C15: a call of DensifySegment or of DensifyRing returns what the call of
\* the same points, models and tolerance returns in the initial state of the
\* library, whatever operations, SetEarthRadius among them, were executed
\* before it.
C15_PureOfArguments ==
    /\ Returned("DensifySegment") =>
           ret = DensifySegment(call.p0, call.p1,
                                NumericsAt(call.base, DefaultRadius),
                                call.tolerance)
    /\ Returned("DensifyRing") =>
           ret = DensifyRing(call.ring, WorldAt(call.base, DefaultRadius),
                             call.tolerance)

\* the point p is on the segment from a to b: on the line through them and
\* between them
OnSegment(p, a, b) ==
    /\ Cross(a, b, p) = 0
    /\ (p[1] - a[1]) * (p[1] - b[1]) <= 0
    /\ (p[2] - a[2]) * (p[2] - b[2]) <= 0

\* the point p is a vertex of the closed ring r or on one of its edges
OnBoundary(r, p) == \E i \in 1..(Len(r) - 1) : OnSegment(p, r[i], r[i + 1])

\* C16: PolygonContains returns true for a point that is contained in the
\* outer ring and is a vertex of a hole or on an edge of a hole.
C16_HoleBoundaryContained ==
    (/\ Returned("PolygonContains")
     /\ Len(call.poly) = 2
     /\ RingContains(call.poly[1], call.point, call.model)
     /\ OnBoundary(call.poly[2], call.point))
        => ret.contains

C18_OrientationIndependent ==
    /\ Returned("RingContains") =>
           ret.contains = RingContains(Reverse(call.ring), call.point, call.model)
    /\ (Returned("PolygonContains") /\ Len(call.poly) = 2) =>
           ret.contains
               = PolygonContains(<<call.poly[1], Reverse(call.poly[2])>>,
                                 call.point, call.model)

\* C18 happens: a point off the boundary of a triangle with a slanted edge
\* is contained in it, under RhumbModel
C18_Witness ==
    /\ Returned("RingContains")
    /\ call.model = "RhumbModel"
    /\ call.ring \in Triangles
    /\ \E i \in 1..3 : /\ call.ring[i][1] # call.ring[i + 1][1]
                        /\ call.ring[i][2] # call.ring[i + 1][2]
    /\ ~OnBoundary(call.ring, call.point)
    /\ ret.contains

\* C19: Wrap180 returns more than -180 and at most 180 degrees, and returns
\* the same for degrees a whole turn more or less.
C19_Wrap180Range ==
    Returned("Wrap180") =>
        /\ 0 - 180 < ret.degrees
        /\ ret.degrees <= 180
        /\ \A k \in {0 - 1, 1} : Wrap180(call.degrees + 360 * k) = ret.degrees

\* the triangle wave of period 360 and amplitude 90 through 0 at 0 degrees
TriangleWave(degrees) ==
    LET m == degrees % 360
    IN  IF m <= 90 THEN m ELSE IF m <= 270 THEN 180 - m ELSE m - 360

\* C20: Wrap90 returns at least -90 and at most 90 degrees, the value of
\* the triangle wave of period 360: -91 gives -89, 91 gives 89, 135 gives
\* 45, 270 gives -90, and degrees a whole turn more or less give the same.
C20_Wrap90Triangle ==
    Returned("Wrap90") =>
        /\ 0 - 90 <= ret.degrees
        /\ ret.degrees <= 90
        /\ ret.degrees = TriangleWave(call.degrees)
        /\ \A k \in {0 - 1, 1} : Wrap90(call.degrees + 360 * k) = ret.degrees

\* C21: wrapping what Wrap360, Wrap180 or Wrap90 returned once more returns
\* the same degrees.
C21_WrapIdempotent ==
    /\ Returned("Wrap360") => Wrap360(ret.degrees) = ret.degrees
    /\ Returned("Wrap180") => Wrap180(ret.degrees) = ret.degrees
    /\ Returned("Wrap90") => Wrap90(ret.degrees) = ret.degrees

\* C22: DistanceTo of every model returns a distance that is not negative;
\* it returns NaN only when the loop of VincentyInverse has not converged,
\* and never for one point taken twice.
C22_DistanceNotNegative ==
    Returned("DistanceTo") =>
        /\ ret.dist.nan \/ ret.dist.v >= 0
        /\ ret.dist.nan =>
               /\ call.model = "VincentyModel"
               /\ call.num.over \/ call.num.convergesAt \notin 1..InverseLimit
        /\ Equals(call.ll, call.dest) => ~ret.dist.nan

C24_PlanarEndpoints ==
    Returned("PlanarIntermediatePointTo") =>
        /\ call.halves = 0 => ret.point = call.lls
        /\ call.halves = 2 => ret.point = call.ll

\* C25: the error DensifySegment measures on the segment it is given is the
\* error SegmentError measures, taken after a midpoint longitude of -180 has
\* been replaced by 180: with a positive tolerance the segment comes back as
\* it is after one measurement exactly when that error is within the
\* tolerance.
C25_SameMeasurement ==
    (Returned("DensifySegment") /\ Positive(call.tolerance)) =>
        ( (ret.calls = 1 /\ ret.err = Nil)
            <=> Accepted(Distance(call.num, call.num.midLon = 0 - 180),
                         call.tolerance) )

\* the sub-segment pf, pt that densifySegment was bisecting when it inserted
\* the point p: p lies at the fraction mid of the interval from..to, and
\* from and to lie one power of two either side of mid
Bisected(p) ==
    LET mid == p[3]
        k == CHOOSE j \in 0..MaxRecursion : mid % (2 ^ (j + 1)) = 2 ^ j
        from == mid - 2 ^ k
        to == mid + 2 ^ k
        pf == IF from = 0 THEN p[1] ELSE ModelPoint(p[1], p[2], from)
        pt == IF to = Scale THEN p[2] ELSE ModelPoint(p[1], p[2], to)
    IN  <<pf, pt>>

\* C26: every point DensifySegment inserts is the model midpoint of the
\* sub-segment pf, pt it was inserted into, IntermediatePoint(pf, pt, 0.5,
\* model), at every level of the recursion.
C26_InsertsSubSegmentMidpoint ==
    (Returned("DensifySegment") /\ ~ret.isNil) =>
        \A i \in 1..Len(ret.pts) :
            Inserted(ret.pts[i]) =>
                ret.pts[i] = ModelPoint(Bisected(ret.pts[i])[1],
                                        Bisected(ret.pts[i])[2], Scale \div 2)

\* C27: earthRadius is read without synchronisation. Every part of a running
\* rhumb IntermediatePointsTo (the shared distance, each goroutine's
\* destination point) and every measurement of a running densification
\* computes with a value earthRadius held while the call was running, the
\* values stored by a SetEarthRadius that ran meanwhile included; the parts
\* are bound to agree only when earthRadius held one value throughout.
C27_PartsReadTheSharedRadius ==
    /\ Returned("RhumbIntermediatePointsTo") =>
           /\ call.dist \in call.held
           /\ \A i \in DOMAIN ret.points :
                  "radius" \in DOMAIN ret.points[i] =>
                      /\ ret.points[i].radius \in call.held
                      /\ ret.points[i].dist = call.dist
                      /\ Cardinality(call.held) = 1 =>
                             ret.points[i].radius = call.dist
    /\ Returned("RhumbDensifySegment") =>
           /\ call.used # {}
           /\ call.used \subseteq call.held
           /\ Cardinality(call.held) = 1 => Cardinality(call.used) = 1

\* C27 happens: a rhumb IntermediatePointsTo has returned a point whose
\* goroutine divided by a radius that is not the radius of the shared
\* distance, SetEarthRadius having run meanwhile
C27_Witness ==
    /\ Returned("RhumbIntermediatePointsTo")
    /\ Cardinality(call.held) = 2
    /\ \E i \in DOMAIN ret.points :
        /\ "radius" \in DOMAIN ret.points[i]
        /\ ret.points[i].radius # ret.points[i].dist

\* C28: a ring returned by DensifyRing (with a nil error or with
\* ErrToleranceTooLow) starts with ring[0] and ends with a point equal to
\* ring[0]; its points that were not inserted are the points of the input in
\* their order, each vertex shared by two consecutive edges once, followed by
\* ring[0] when the first and the last point of the input differ; the closing
\* edge is densified exactly in that case.
C28_RingShape ==
    (Returned("DensifyRing") /\ ~ret.isNil) =>
        LET ring == call.ring
            open == ring[1] # ring[Len(ring)]
        IN  /\ ret.pts[1] = ring[1]
            /\ ret.pts[Len(ret.pts)] = ring[1]
            /\ SelectSeq(ret.pts, LAMBDA p : ~Inserted(p))
                   = IF open THEN Append(ring, ring[1]) ELSE ring
            /\ ret.segs = IF open THEN Len(ring) ELSE Len(ring) - 1

\* C28 happens: a ring of three points whose last point is not the first
\* comes back closed, with points inserted into its closing edge
C28_Witness ==
    /\ Returned("DensifyRing")
    /\ ~ret.isNil
    /\ Len(call.ring) = 3
    /\ call.ring[1] # call.ring[3]
    /\ call.ring[1] # call.ring[2]
    /\ Len(ret.pts) > 4
    /\ Inserted(ret.pts[Len(ret.pts) - 1])
    /\ ret.pts[Len(ret.pts)] = call.ring[1]

\* C29: with a positive tolerance ErrInternalError is never returned:
\* DensifySegment returns at least 2 points, the first p0 and the last p1,
\* whenever its error is nil or ErrToleranceTooLow, and DensifyRing,
\* DensifyPolygon and DensifyMultiPolygon return no ErrInternalError, on any
\* geometry and under any numerics of its edges.
C29_NoInternalError ==
    /\ (Returned("DensifySegment") /\ Positive(call.tolerance)
            /\ ret.err \in {Nil, ErrToleranceTooLow}) =>
           /\ Len(ret.pts) >= 2
           /\ ret.pts[1] = call.p0
           /\ ret.pts[Len(ret.pts)] = call.p1
    /\ (GeometryReturned /\ Positive(call.tolerance)) =>
           ~ErrorsIs(ret.err, ErrInternalError)

\* C29 happens: a ring comes back with ErrToleranceTooLow from one edge while
\* another edge came back as its two points, the fewest DensifySegment returns
C29_Witness ==
    /\ Returned("DensifyRing")
    /\ Positive(call.tolerance)
    /\ ret.err = ErrToleranceTooLow
    /\ ret.segs >= 2
    /\ \E i \in 1..(Len(ret.pts) - 1) :
        ~Inserted(ret.pts[i]) /\ ~Inserted(ret.pts[i + 1])

\* the densification calls of the storage model
StoredOps ==
    {"DensifySegmentStored", "DensifyRingStored", "DensifyPolygonStored",
     "DensifyMultiPolygonStored"}

\* C30: densification never mutates its input: when DensifySegment,
\* DensifyRing, DensifyPolygon or DensifyMultiPolygon has returned, with or
\* without an error, every array the input was stored in holds what it held
\* before the call, and the geometry returned is stored in arrays made
\* during the call, none of them an array of the input.
C30_InputUntouched ==
    (pc = "returned" /\ call.op \in StoredOps) =>
        /\ Len(points) >= Len(call.heap)
        /\ \A a \in 1..Len(call.heap) : points[a] = call.heap[a]
        /\ ret.arrays \cap call.arrays = {}
        /\ \A a \in ret.arrays : a > Len(call.heap)
        /\ ret.isNil => ret.s = NilSlice

\* C30 happens: a polygon of two rings has come back densified, with more
\* points in its first ring than the input has, in arrays of its own
C30_Witness ==
    /\ pc = "returned"
    /\ call.op = "DensifyPolygonStored"
    /\ call.input.len = 2
    /\ ~ret.isNil
    /\ ret.s.len = 2
    /\ points[ret.s.arr][1].len > points[call.input.arr][1].len
    /\ points[call.input.arr][1].len >= 2
    /\ Cardinality(ret.arrays) = 3

=============================================================================
